---- MODULE Spec2Model ----
(***************************************************************************)
(* Verification model of the 3Speak upload service:                        *)
(*   - the IPFS storage service and its admin routes (services/storage.js, *)
(*     routes/storage.js),                                                 *)
(*   - the client status reconcilers and polling loops of the integration  *)
(*     guides,                                                             *)
(*   - the upload-session tracker (init / transport callback / finalize)   *)
(*     and the persisted video status, which are not part of the sources   *)
(*     at hand and are modelled from the design specification.             *)
(* Three specifications share the module: SpecStorage, SpecPoll and        *)
(* SpecUpload; each leaves the variables of the other components fixed.    *)
(***************************************************************************)
EXTENDS Integers, Sequences, FiniteSets, TLC

VARIABLES
    \* ---- storage component
    pins,        \* cids recursively pinned in the pinning service
    repo,        \* cids whose blocks are in the repository (pinned or not yet collected)
    now,         \* wall clock, in hours
    stamp,       \* cid -> timestamp handed out by the latest listing (NoStamp: never listed)
    resp         \* the latest HTTP response of the storage routes

VARIABLES
    \* ---- video pipeline and its clients
    vstatus,     \* status of the persisted video record
    job,         \* the encoder's job for the video (NoJob: none available)
    lastWrite,   \* the latest status write attempted on the video record
    poller       \* the client polling loop

storageVars == <<pins, repo, now, stamp, resp>>
VARIABLES
    \* ---- upload sessions
    sessions,    \* upload_id -> UploadSession document (NoSession: none stored)
    issued,      \* upload ids handed out by init so far
    videos,      \* the VideoRecords created by finalize
    req          \* finalize requests: position, snapshot read, response

VARIABLES
    \* ---- progress display of a client
    encodingProgress,  \* video.encodingProgress of the status answer
    display            \* the handler that renders progress, what it shows now and showed before

VARIABLES
    \* ---- storage dashboard (browser)
    firstSeen,   \* cid -> time of the first dashboard listing that showed the pin
    dashboard    \* the table rendered by the latest load of the pinned files

VARIABLES
    \* ---- host and configuration of the storage admin routes
    disk,           \* what df reports for the root file system
    adminPassword   \* IPFS_STORAGE_ADMIN_PASSWORD (NoPassword: not configured)

VARIABLES
    \* ---- in-progress aggregator
    library,     \* the VideoRecords with their jobs, oldest first
    inProgress   \* the latest answer of GET /api/upload/in-progress

VARIABLES
    \* ---- setup script of the temp_uploads collection
    indexes,     \* names of the indexes of temp_uploads ({}: no collection)
    setup        \* the run of the setup script: position, runs completed

VARIABLES
    \* ---- upload-first clients (browser)
    auto,        \* an UploadFirstAutoSubmit object, its uploads and its requests
    demo         \* the demo page's upload-first form, its uploads and its submit

pipeVars == <<vstatus, job, lastWrite, poller>>
clientVars == <<auto, demo>>
setupVars == <<indexes, setup>>
aggVars == <<library, inProgress>>
adminVars == <<disk, adminPassword>>
uploadVars == <<sessions, issued, videos, req>>
displayVars == <<encodingProgress, display>>
dashVars == <<firstSeen, dashboard>>

notStorage == <<pipeVars, uploadVars, displayVars, dashVars, adminVars, aggVars, setupVars, clientVars>>
notPipe == <<storageVars, uploadVars, displayVars, dashVars, adminVars, aggVars, setupVars, clientVars>>
notUpload == <<pins, repo, stamp, resp, pipeVars, displayVars, dashVars, adminVars, aggVars, setupVars, clientVars>>
notDisplay == <<storageVars, uploadVars, lastWrite, poller, dashVars, adminVars, aggVars, setupVars, clientVars>>
notDash == <<pipeVars, uploadVars, displayVars, adminVars, aggVars, setupVars, clientVars>>
notRoutes == <<pipeVars, uploadVars, displayVars, dashVars>>
notAgg == <<storageVars, pipeVars, uploadVars, displayVars, dashVars, adminVars, setupVars, clientVars>>
notSetup == <<storageVars, pipeVars, uploadVars, displayVars, dashVars, adminVars, aggVars, clientVars>>

notClient == <<storageVars, pipeVars, uploadVars, displayVars, dashVars, adminVars, aggVars, setupVars>>

vars == <<storageVars, pipeVars, uploadVars, displayVars, dashVars, adminVars, aggVars, setupVars, clientVars>>

(***************************************************************************)
(* Bounds of the model                                                     *)
(***************************************************************************)
MaxBatch == 2        \* longest cids array of an unpin request
MaxTicks == 2        \* clock ticks explored
TickHours == 12      \* hours that pass in one tick
PollAttemptsCap == 3  \* iterations after which a bounded polling loop gives up
MaxRequests == 3     \* finalize requests explored
MaxFiles == 2        \* files selected in one page of an upload-first client
MaxSends == 2        \* finalize requests sent by an UploadFirstAutoSubmit object

CIDs == {"QmA", "QmB"}
CidOrder == <<"QmA", "QmB">>     \* key order of the pin/ls answer
NoStamp == -1
None == "none"

MIN_AGE_HOURS == 24

(***************************************************************************)
(* Helpers                                                                 *)
(***************************************************************************)
SeqsUpTo(S, n) == UNION {[1..k -> S] : k \in 0..n}

RECURSIVE SelectCids(_, _)
SelectCids(order, S) ==
    IF order = <<>> THEN <<>>
    ELSE IF Head(order) \in S
         THEN <<Head(order)>> \o SelectCids(Tail(order), S)
         ELSE SelectCids(Tail(order), S)

CidSize(c) == IF c = "QmA" THEN 3 ELSE 5

RECURSIVE SumSize(_)
SumSize(S) ==
    IF S = {} THEN 0
    ELSE LET c == CHOOSE x \in S : TRUE IN CidSize(c) + SumSize(S \ {c})

(***************************************************************************)
(* services/storage.js                                                     *)
(***************************************************************************)

\* POST /api/v0/pin/rm of the pinning service: fails on an upstream error
\* and for a cid that is not pinned.
pinRm(cid, pinned, upstreamFails) ==
    IF upstreamFails THEN [ok |-> FALSE, error |-> "upstream error", pins |-> pinned]
    ELSE IF cid \notin pinned THEN [ok |-> FALSE, error |-> "not pinned", pins |-> pinned]
    ELSE [ok |-> TRUE, error |-> None, pins |-> pinned \ {cid}]

\* (mutant) a failed pin/rm is logged but not recorded in the results.
unpinOneDropsFailure(acc, cid, force, upstreamFails) ==
    LET r == pinRm(cid, acc.pins, upstreamFails) IN
    IF r.ok
    THEN [acc EXCEPT !.success = Append(@, cid),
                     !.pins = r.pins,
                     !.attempts = Append(@, [cid |-> cid, ok |-> TRUE])]
    ELSE [acc EXCEPT !.attempts = Append(@, [cid |-> cid, ok |-> FALSE])]

\* One iteration of the for loop of unpinFiles: try / catch around pin/rm.
unpinOne(acc, cid, force, upstreamFails) ==
    LET r == pinRm(cid, acc.pins, upstreamFails) IN
    IF r.ok
    THEN [acc EXCEPT !.success = Append(@, cid),
                     !.pins = r.pins,
                     !.attempts = Append(@, [cid |-> cid, ok |-> TRUE])]
    ELSE [acc EXCEPT !.failed = Append(@, [cid |-> cid, error |-> r.error]),
                     !.attempts = Append(@, [cid |-> cid, ok |-> FALSE])]

\* (mutant) no try / catch inside the loop: the first failed pin/rm throws
\* out of unpinFiles and the rest of the batch is not attempted.
RECURSIVE unpinLoopAborts(_, _, _, _, _)
unpinLoopAborts(acc, cids, i, force, fails) ==
    IF i > Len(cids) THEN acc
    ELSE IF ~pinRm(cids[i], acc.pins, fails[i]).ok
         THEN [acc EXCEPT !.threw = TRUE]
         ELSE unpinLoopAborts(unpinOne(acc, cids[i], force, fails[i]),
                              cids, i + 1, force, fails)

RECURSIVE unpinLoop(_, _, _, _, _)
unpinLoop(acc, cids, i, force, fails) ==
    IF i > Len(cids) THEN acc
    ELSE unpinLoop(unpinOne(acc, cids[i], force, fails[i]), cids, i + 1, force, fails)

\* unpinFiles(cids, force): the results object, with the pin set it leaves
\* and the pin/rm calls it made. The force flag is only looked at to log.
unpinFiles(cids, force, pinned, fails) ==
    unpinLoop([success |-> <<>>, failed |-> <<>>, skipped |-> <<>>,
               pins |-> pinned, attempts |-> <<>>, threw |-> FALSE],
              cids, 1, force, fails)

\* (mutant) no try / catch around object/stat: a pin whose stat fails is
\* left out of the list.
RECURSIVE listEntriesDropsFailed(_, _, _)
listEntriesDropsFailed(order, statFails, t) ==
    IF order = <<>> THEN <<>>
    ELSE IF Head(order) \in statFails
         THEN listEntriesDropsFailed(Tail(order), statFails, t)
         ELSE <<[cid |-> Head(order), size |-> CidSize(Head(order)),
                 timestamp |-> t]>> \o listEntriesDropsFailed(Tail(order), statFails, t)

\* listPinnedFiles(): one entry per key of the pin/ls answer; a failed
\* object/stat gives size 0; the timestamp is the time of the call.
RECURSIVE listEntries(_, _, _)
listEntries(order, statFails, t) ==
    IF order = <<>> THEN <<>>
    ELSE <<[cid |-> Head(order),
            size |-> IF Head(order) \in statFails THEN 0 ELSE CidSize(Head(order)),
            timestamp |-> t]>> \o listEntries(Tail(order), statFails, t)

listPinnedFiles(pinned, statFails, t) ==
    listEntries(SelectCids(CidOrder, pinned), statFails, t)

\* getRepoStats().repoSize
repoSize(r) == SumSize(r)

(***************************************************************************)
(* routes/storage.js and the environment of the storage service            *)
(***************************************************************************)
NoResp == [route |-> None, status |-> 0]

StartStorage ==
    /\ pins \in SUBSET CIDs
    /\ repo = pins
    /\ now = 0
    /\ stamp = [c \in CIDs |-> NoStamp]
    /\ resp = NoResp

\* Time passes.
Tick ==
    /\ now < MaxTicks * TickHours
    /\ now' = now + TickHours
    /\ UNCHANGED <<pins, repo, stamp, resp>>
    /\ UNCHANGED notStorage

\* An upload pins new content (the upload pipeline, outside the storage routes).
PinAdd ==
    \E c \in CIDs \ pins :
        /\ pins' = pins \cup {c}
        /\ repo' = repo \cup {c}
        /\ stamp' = [stamp EXCEPT ![c] = NoStamp]
        /\ UNCHANGED <<now, resp>>
        /\ UNCHANGED notStorage

\* GET /pinned
GetPinned ==
    /\ UNCHANGED notStorage
    /\ \E lsFails \in BOOLEAN, statFails \in SUBSET pins :
        IF lsFails
        THEN /\ resp' = [route |-> "pinned", status |-> 500]
             /\ UNCHANGED <<pins, repo, now, stamp>>
        ELSE LET data == listPinnedFiles(pins, statFails, now) IN
             /\ resp' = [route |-> "pinned", status |-> 200,
                          count |-> Len(data), data |-> data,
                          pinned |-> pins, statFails |-> statFails]
             /\ stamp' = [c \in CIDs |-> IF c \in pins THEN now ELSE stamp[c]]
             /\ UNCHANGED <<pins, repo, now>>

\* Request bodies of POST /unpin: cids missing, not an array, or an array.
\* (kind "array" carries the array; the other kinds carry no usable cids.)
UnpinBodies ==
    [kind : {"array"}, cids : SeqsUpTo(CIDs, MaxBatch), force : BOOLEAN]
    \cup [kind : {"missing", "notArray"}, cids : {<<>>}, force : BOOLEAN]

\* (mutant) the length of the array is not looked at.
cidsValidAnyArray(body) == body.kind = "array"

\* !cids || !Array.isArray(cids) || cids.length === 0, negated
cidsValid(body) == body.kind = "array" /\ Len(body.cids) > 0

\* POST /unpin. The response record also keeps what the request did to the
\* pin set: the pin/rm calls made and the pins removed, with the time and the
\* listing timestamp of each removed pin.
PostUnpinOf(bodies) ==
    /\ UNCHANGED notStorage
    /\ \E body \in bodies :
        IF ~cidsValid(body)
        THEN /\ resp' = [route |-> "unpin", status |-> 400, body |-> body]
             /\ UNCHANGED <<pins, repo, now, stamp>>
        ELSE \E fails \in [1..Len(body.cids) -> BOOLEAN] :
             LET results == unpinFiles(body.cids, body.force, pins, fails) IN
             /\ resp' = [route |-> "unpin",
                          status |-> IF results.threw THEN 500 ELSE 200,
                          body |-> body,
                          pinsBefore |-> pins,
                          fails |-> fails,
                          success |-> results.success,
                          failed |-> results.failed,
                          attempts |-> results.attempts,
                          removed |-> {[cid |-> c, at |-> now, stamp |-> stamp[c]] :
                                          c \in pins \ results.pins}]
             /\ pins' = results.pins
             /\ UNCHANGED <<repo, now, stamp>>

PostUnpin == PostUnpinOf(UnpinBodies)

\* What repo/gc leaves in the repository: the pinned objects.
gcCollect(r, pinned) == r \cap pinned

\* (mutant) the size before the collection is reported as the space freed.
runGarbageCollectionReportsBefore(before, after) ==
    [success |-> TRUE, spaceFreed |-> before, beforeSize |-> before, afterSize |-> after]

\* runGarbageCollection: the result built from the two repo/stat answers.
runGarbageCollection(before, after) ==
    [success |-> TRUE, spaceFreed |-> before - after,
     beforeSize |-> before, afterSize |-> after]

GcFailures == {None, "statBefore", "gc", "statAfter"}

\* POST /gc: repo/stat, repo/gc, repo/stat. Any of the three calls may fail
\* (500); uploads that pin new content while the collection runs (written)
\* are in the repository when the second repo/stat is taken. The response
\* record also keeps whether the request before it was a successful
\* collection, and what that one freed.
PostGc ==
    /\ UNCHANGED notStorage
    /\ \E failAt \in GcFailures, written \in SUBSET (CIDs \ pins) :
        LET afterGc == resp.route = "gc" /\ resp.status = 200
            prevFreed == IF afterGc THEN resp.data.spaceFreed ELSE 0
            before == repoSize(repo)
            left == gcCollect(repo, pins) \cup written
            after == repoSize(left)
        IN  IF failAt \in {"statBefore", "gc"}
            THEN /\ written = {}
                 /\ resp' = [route |-> "gc", status |-> 500, failAt |-> failAt,
                             afterGc |-> afterGc, written |-> written]
                 /\ UNCHANGED <<pins, repo, now, stamp>>
            ELSE /\ pins' = pins \cup written
                 /\ repo' = left
                 /\ stamp' = [c \in CIDs |-> IF c \in written THEN NoStamp ELSE stamp[c]]
                 /\ resp' = IF failAt = "statAfter"
                            THEN [route |-> "gc", status |-> 500, failAt |-> failAt,
                                  afterGc |-> afterGc, written |-> written]
                            ELSE [route |-> "gc", status |-> 200, failAt |-> failAt,
                                  afterGc |-> afterGc, written |-> written,
                                  prevFreed |-> prevFreed,
                                  data |-> runGarbageCollection(before, after)]
                 /\ UNCHANGED now

NextStorage ==
    \/ Tick
    \/ PinAdd
    \/ GetPinned
    \/ PostUnpin
    \/ PostGc


\* Steps of the unpin route: pins appear, unpin requests arrive.
NextUnpin ==
    \/ PinAdd
    \/ PostUnpin


(***************************************************************************)
(* Storage statistics: getDiskUsage, getStorageStats, the read-only routes *)
(***************************************************************************)
MaxPercent == 100     \* df reports the use of the file system as 0..100 %
DiskTotal == 16       \* size of the file system, in the unit of CidSize

\* A string that may hold ':' is kept as the sequence of its ':'-separated
\* parts, which is what credentials.split(':') yields.
NoPassword == <<>>                  \* the variable is not set
Passwords == {NoPassword, <<"">>, <<"secret">>, <<"se", "cret">>}
validUsername == "admin"            \* IPFS_STORAGE_ADMIN_USERNAME || 'admin'

IdleAdmin ==
    /\ disk = [total |-> DiskTotal, percentUsed |-> 0]
    /\ adminPassword = <<"secret">>

\* (mutant) the warning tier starts at 60 instead of above 60.
healthOfInclusive(percentUsed) ==
    IF percentUsed > 80 THEN [level |-> "critical", color |-> "red"]
    ELSE IF percentUsed >= 60 THEN [level |-> "warning", color |-> "yellow"]
    ELSE [level |-> "healthy", color |-> "green"]

\* getStorageStats: the health status.
healthOf(percentUsed) ==
    IF percentUsed > 80 THEN [level |-> "critical", color |-> "red"]
    ELSE IF percentUsed > 60 THEN [level |-> "warning", color |-> "yellow"]
    ELSE [level |-> "healthy", color |-> "green"]

\* getStorageStats. percentOfDisk is kept in hundredths of a percent.
getStorageStats(rSize, d) ==
    [disk |-> [total |-> d.total, percentUsed |-> d.percentUsed],
     ipfs |-> [repoSize |-> rSize, percentOfDisk |-> (rSize * 10000) \div d.total],
     status |-> healthOf(d.percentUsed)]

\* The use of the file system grows or shrinks by a percent (outside the
\* service).
DiskChange ==
    /\ \E p \in {disk.percentUsed - 1, disk.percentUsed + 1} \cap (0..MaxPercent) :
        disk' = [disk EXCEPT !.percentUsed = p]
    /\ UNCHANGED <<storageVars, adminPassword, aggVars, setupVars, clientVars>>
    /\ UNCHANGED notRoutes

\* GET /stats: repo/stat and df, either may fail (500).
GetStats ==
    /\ \E repoFails, dfFails \in BOOLEAN :
        resp' = IF repoFails \/ dfFails
                THEN [route |-> "stats", status |-> 500]
                ELSE [route |-> "stats", status |-> 200,
                      data |-> getStorageStats(repoSize(repo), disk)]
    /\ UNCHANGED <<pins, repo, now, stamp, adminVars, aggVars, setupVars, clientVars>>
    /\ UNCHANGED notRoutes

\* GET /health
GetHealth ==
    /\ \E repoFails, dfFails \in BOOLEAN :
        resp' = IF repoFails \/ dfFails
                THEN [route |-> "health", status |-> 500, healthy |-> FALSE]
                ELSE LET stats == getStorageStats(repoSize(repo), disk) IN
                     [route |-> "health", status |-> 200,
                      healthy |-> stats.status.level # "critical",
                      statusOf |-> stats.status]
    /\ UNCHANGED <<pins, repo, now, stamp, adminVars, aggVars, setupVars, clientVars>>
    /\ UNCHANGED notRoutes

\* GET /unpinned: listUnpinnedFiles answers the empty list and
\* estimateReclaimableSpace 0, whatever the repository holds.
GetUnpinned ==
    /\ resp' = [route |-> "unpinned", status |-> 200, count |-> 0, data |-> <<>>,
                reclaimable |-> 0]
    /\ UNCHANGED <<pins, repo, now, stamp, adminVars, aggVars, setupVars, clientVars>>
    /\ UNCHANGED notRoutes

NextStats ==
    \/ DiskChange
    \/ PinAdd
    \/ GetStats
    \/ GetHealth

(***************************************************************************)
(* scripts/setup-temp-uploads-collection.js                                *)
(***************************************************************************)
MaxRuns == 2

\* The indexes the script creates, in the order of its createIndex calls.
CreateOrder ==
    <<"upload_id_unique", "owner_created", "tus_finalized_status", "video_id",
      "expires_ttl">>

SetupIndexes == {"_id_"} \cup {CreateOrder[i] : i \in 1..Len(CreateOrder)}

\* Indexes a collection may carry that the script does not create: the one
\* a schema declaration builds on upload_id, and a stale one.
ForeignIndexes == {"upload_id_1", "created_1"}

\* The key of an index.
IndexKey(name) ==
    CASE name = "_id_" -> "_id"
      [] name \in {"upload_id_unique", "upload_id_1"} -> "upload_id"
      [] name = "owner_created" -> "owner,created"
      [] name = "tus_finalized_status" -> "tus_completed,finalized"
      [] name = "video_id" -> "video_id"
      [] name = "expires_ttl" -> "expires"
      [] name = "created_1" -> "created"

\* collection.createIndex: nothing to do when the index is there already,
\* an error when another index has the same key under another name.
createIndex(existing, name) ==
    IF name \in existing THEN [ok |-> TRUE, indexes |-> existing]
    ELSE IF \E e \in existing : IndexKey(e) = IndexKey(name)
         THEN [ok |-> FALSE, indexes |-> existing]
         ELSE [ok |-> TRUE, indexes |-> existing \cup {name}]

\* (mutant) nothing is dropped before the indexes are created.
dropTargetsNone(existing) == {}

\* The indexes the script drops: all but _id_.
dropTargets(existing) == {name \in existing : name # "_id_"}

NoSetup == [pc |-> "idle", next |-> 0, runs |-> 0, left |-> {}]

\* A deployed collection, no run of the script going on.
IdleSetup ==
    /\ indexes = SetupIndexes
    /\ setup = NoSetup

\* Connect; create the collection unless it exists.
SetupConnect ==
    /\ setup.pc \in {"idle", "done", "failed"}
    /\ setup.runs < MaxRuns
    /\ indexes' = IF indexes = {} THEN {"_id_"} ELSE indexes
    /\ setup' = [setup EXCEPT !.pc = "drop"]
    /\ UNCHANGED notSetup

\* Drop the existing indexes except _id_.
SetupDropIndexes ==
    /\ setup.pc = "drop"
    /\ indexes' = indexes \ dropTargets(indexes)
    /\ setup' = [setup EXCEPT !.pc = "create", !.next = 1]
    /\ UNCHANGED notSetup

\* The next createIndex call; an error ends the run (exit 1).
SetupCreateIndex ==
    /\ setup.pc = "create"
    /\ LET made == createIndex(indexes, CreateOrder[setup.next]) IN
        /\ indexes' = made.indexes
        /\ setup' = IF ~made.ok THEN [setup EXCEPT !.pc = "failed", !.next = 0]
                    ELSE IF setup.next = Len(CreateOrder)
                    THEN [setup EXCEPT !.pc = "verify", !.next = 0]
                    ELSE [setup EXCEPT !.next = @ + 1]
    /\ UNCHANGED notSetup

\* Verify the indexes, show the statistics, close the connection.
SetupVerify ==
    /\ setup.pc = "verify"
    /\ setup' = [setup EXCEPT !.pc = "done", !.runs = @ + 1, !.left = indexes]
    /\ UNCHANGED indexes
    /\ UNCHANGED notSetup

(***************************************************************************)
(* In-progress aggregator: GET /api/upload/in-progress                     *)
(***************************************************************************)
MaxVideos == 11          \* VideoRecords in the collection
InProgressLimit == 10    \* "Limits to 10 results"
Owners == {"alice", "bob"}

\* status: { $in: [...] } of the query.
ActiveStatuses ==
    {"uploaded", "encoding_ipfs", "encoding_preparing", "encoding_progress"}

ActiveCycle == <<"uploaded", "encoding_ipfs", "encoding_preparing", "encoding_progress">>
JobCycle == <<None, "queued", "running", "complete", "failed">>

\* What a record that is not an active video of alice is.
OtherCycle ==
    <<[owner |-> "alice", status |-> "encoding_completed"],
      [owner |-> "alice", status |-> "published"],
      [owner |-> "bob", status |-> "uploaded"],
      [owner |-> "alice", status |-> "failed"],
      [owner |-> "alice", status |-> "publish_manual"],
      [owner |-> "bob", status |-> "published"],
      [owner |-> "alice", status |-> "encoding_failed"]>>

\* The collections: record i was created at time i. The records chosen as
\* active belong to alice; statuses, owners and jobs vary along the
\* collection.
Libraries ==
    UNION {{[i \in 1..n |->
                [video_id |-> i, created |-> i,
                 owner |-> IF i \in active THEN "alice"
                           ELSE OtherCycle[(i % 7) + 1].owner,
                 status |-> IF i \in active THEN ActiveCycle[(i % 4) + 1]
                            ELSE OtherCycle[(i % 7) + 1].status,
                 job_status |-> JobCycle[(i % 5) + 1]]] :
             active \in SUBSET (1..n)} : n \in 0..MaxVideos}

NoInProgress == [owner |-> None]

IdleAgg ==
    /\ library = <<>>
    /\ inProgress = NoInProgress

\* Videos.find({owner, status: {$in: ...}}), newest first.
RECURSIVE findNewestFirst(_, _, _, _)
findNewestFirst(lib, owner, statuses, i) ==
    IF i = 0 THEN <<>>
    ELSE IF lib[i].owner = owner /\ lib[i].status \in statuses
         THEN <<lib[i]>> \o findNewestFirst(lib, owner, statuses, i - 1)
         ELSE findNewestFirst(lib, owner, statuses, i - 1)

\* .limit(n)
limit(found, n) == SubSeq(found, 1, IF Len(found) < n THEN Len(found) ELSE n)

\* (mutant) an entry is complete as soon as its job is.
inProgressEntryJobComplete(v) ==
    [video_id |-> v.video_id, owner |-> v.owner, created |-> v.created,
     status |-> v.status, job_status |-> v.job_status,
     is_complete |-> v.status = "published" \/ v.job_status = "complete",
     is_failed |-> v.status \in {"failed", "encoding_failed"} \/ v.job_status = "failed"]

\* An entry of the answer: the raw fields, is_complete "true when
\* video.status = published", is_failed "true on any failure".
inProgressEntry(v) ==
    [video_id |-> v.video_id, owner |-> v.owner, created |-> v.created,
     status |-> v.status, job_status |-> v.job_status,
     is_complete |-> v.status = "published",
     is_failed |-> v.status \in {"failed", "encoding_failed"} \/ v.job_status = "failed"]

entriesOf(found) == [i \in 1..Len(found) |-> inProgressEntry(found[i])]

\* The coarse phase of a listed video.
coarsePhase(v) ==
    IF v.job_status = "failed" THEN "failed"
    ELSE IF v.job_status = "complete" THEN "finishing"
    ELSE IF v.job_status = "running" THEN "encoding"
    ELSE "queued"

tally(listed, phase) ==
    Cardinality({i \in 1..Len(listed) : coarsePhase(listed[i]) = phase})

\* The summary of an answer that lists videos, and the one of the answer
\* that lists none.
summaryOf(listed) ==
    [p \in {"queued", "encoding", "finishing", "failed"} |-> tally(listed, p)]

emptySummary == [p \in {"queued", "encoding", "finishing"} |-> 0]

\* (mutant) the query without its limit.
listInProgressUnlimited(owner, lib) ==
    LET listed == entriesOf(findNewestFirst(lib, owner, ActiveStatuses, Len(lib))) IN
    [videos |-> listed,
     count |-> Len(listed),
     summary |-> IF listed = <<>> THEN emptySummary ELSE summaryOf(listed)]

\* listInProgress(owner): the data of the answer.
listInProgress(owner, lib) ==
    LET listed == entriesOf(limit(findNewestFirst(lib, owner, ActiveStatuses,
                                                  Len(lib)),
                                  InProgressLimit))
    IN
    [videos |-> listed,
     count |-> Len(listed),
     summary |-> IF listed = <<>> THEN emptySummary ELSE summaryOf(listed)]

\* GET /api/upload/in-progress with X-Hive-Username: owner.
GetInProgress ==
    /\ \E owner \in Owners \cup {"carol"} :
        inProgress' = [owner |-> owner, data |-> listInProgress(owner, library)]
    /\ UNCHANGED library
    /\ UNCHANGED notAgg

(***************************************************************************)
(* requireStorageAuth                                                      *)
(***************************************************************************)
AdminRoutes == {"stats", "pinned", "unpinned", "unpin", "gc", "health"}

\* The decoded credentials of a Basic header, split at ':'.
Credentials ==
    {<<"admin", "secret">>, <<"admin", "wrong">>, <<"eve", "secret">>,
     <<"admin", "se", "cret">>, <<"admin", "">>, <<"admin">>, <<"">>}

\* Authorization headers: absent, another scheme, or Basic.
Headers ==
    {[scheme |-> "none", credentials |-> <<>>],
     [scheme |-> "Bearer", credentials |-> <<>>]}
    \cup [scheme : {"Basic"}, credentials : Credentials]

\* !validPassword: undefined or the empty string.
passwordMissing(validPassword) == validPassword \in {NoPassword, <<"">>}

\* username === validUsername && password === validPassword, with
\* [username, password] the first two parts of the credentials.
credentialsMatch(credentials, validPassword) ==
    /\ Len(credentials) >= 1
    /\ credentials[1] = validUsername
    /\ Len(credentials) >= 2
    /\ Len(validPassword) = 1
    /\ credentials[2] = validPassword[1]

\* (mutant) the password check is skipped when no password is configured.
requireStorageAuthBypass(header, validPassword) ==
    IF header.scheme # "Basic"
    THEN [status |-> 401, challenge |-> TRUE, next |-> FALSE]
    ELSE IF passwordMissing(validPassword)
    THEN [status |-> 0, challenge |-> FALSE, next |-> TRUE]
    ELSE IF credentialsMatch(header.credentials, validPassword)
    THEN [status |-> 0, challenge |-> FALSE, next |-> TRUE]
    ELSE [status |-> 401, challenge |-> TRUE, next |-> FALSE]

\* (mutant) any Basic header passes once a password is configured.
requireStorageAuthAnyBasic(header, validPassword) ==
    IF header.scheme # "Basic"
    THEN [status |-> 401, challenge |-> TRUE, next |-> FALSE]
    ELSE IF passwordMissing(validPassword)
    THEN [status |-> 500, challenge |-> FALSE, next |-> FALSE]
    ELSE [status |-> 0, challenge |-> FALSE, next |-> TRUE]

\* requireStorageAuth: the answer of the middleware, or next().
requireStorageAuth(header, validPassword) ==
    IF header.scheme # "Basic"
    THEN [status |-> 401, challenge |-> TRUE, next |-> FALSE]
    ELSE IF passwordMissing(validPassword)
    THEN [status |-> 500, challenge |-> FALSE, next |-> FALSE]
    ELSE IF credentialsMatch(header.credentials, validPassword)
    THEN [status |-> 0, challenge |-> FALSE, next |-> TRUE]
    ELSE [status |-> 401, challenge |-> TRUE, next |-> FALSE]

\* A request has passed the middleware and its handler has not answered yet.
Admitted(route) ==
    /\ "header" \in DOMAIN resp
    /\ resp.next
    /\ resp.route = route

AwaitingHandler == "header" \in DOMAIN resp /\ resp.next

\* A request reaches a storage-admin route: the middleware runs first. The
\* handler of an admitted request starts in the same turn, so no other
\* request is taken in between.
AdminRequest ==
    /\ ~AwaitingHandler
    /\ \E route \in AdminRoutes, header \in Headers :
        LET verdict == requireStorageAuth(header, adminPassword) IN
        resp' = [route |-> route, status |-> verdict.status,
                 header |-> header, challenge |-> verdict.challenge,
                 next |-> verdict.next]
    /\ UNCHANGED <<pins, repo, now, stamp, adminVars, aggVars, setupVars, clientVars>>
    /\ UNCHANGED notRoutes

(***************************************************************************)
(* storage-client.js: the dashboard's table of pinned files                *)
(***************************************************************************)
\* calculateAge: whole hours and whole days between the timestamp and the
\* time of rendering.
calculateAge(timestamp, t) ==
    [hours |-> t - timestamp, days |-> (t - timestamp) \div 24]

\* displayPinnedFiles: one row per listed file; checkbox and Unpin button
\* are enabled (canUnpin) from 24 hours of age on.
RECURSIVE displayPinnedFiles(_, _)
displayPinnedFiles(files, t) ==
    IF files = <<>> THEN <<>>
    ELSE LET file == Head(files)
             age == calculateAge(file.timestamp, t)
         IN  <<[cid |-> file.cid, hours |-> age.hours, canUnpin |-> age.hours >= 24]>>
             \o displayPinnedFiles(Tail(files), t)

\* Nothing sent by performUnpin yet: the cids of the request, and those of
\* them whose row had an enabled checkbox when the request was sent.
NoSent == [cids |-> {}, shown |-> {}]

\* The constructor: selectedCIDs = new Set(), the table not loaded.
NoDashboard ==
    [loaded |-> FALSE, at |-> 0, rows |-> <<>>, selected |-> {}, sent |-> NoSent]

\* Hours by which the browser's clock (new Date() in calculateAge) is ahead
\* of the server's clock (the listing's timestamp) at the time of a render.
BrowserOffsets == {0, MIN_AGE_HOURS}

\* The cids of the rows whose checkbox and Unpin button are enabled.
enabledCids(rows) == {rows[i].cid : i \in {j \in 1..Len(rows) : rows[j].canUnpin}}

IdleDash ==
    /\ firstSeen = [c \in CIDs |-> NoStamp]
    /\ dashboard = NoDashboard

\* loadPinnedFiles: GET /pinned, then render with the browser's clock. A
\* failed request leaves the table on its loading row. selectedCIDs is not
\* touched by either outcome.
loadPinnedFilesWith(offsets) ==
    /\ UNCHANGED notDash
    /\ \E lsFails \in BOOLEAN, statFails \in SUBSET pins, offset \in offsets :
        IF lsFails
        THEN /\ resp' = [route |-> "pinned", status |-> 500]
             /\ dashboard' = [dashboard EXCEPT !.loaded = FALSE, !.at = now,
                                                !.rows = <<>>]
             /\ UNCHANGED <<pins, repo, now, stamp, firstSeen>>
        ELSE LET data == listPinnedFiles(pins, statFails, now) IN
             /\ resp' = [route |-> "pinned", status |-> 200,
                          count |-> Len(data), data |-> data,
                          pinned |-> pins, statFails |-> statFails]
             /\ stamp' = [c \in CIDs |-> IF c \in pins THEN now ELSE stamp[c]]
             /\ firstSeen' = [c \in CIDs |->
                                 IF c \in pins /\ stamp[c] = NoStamp THEN now
                                 ELSE firstSeen[c]]
             /\ dashboard' = [dashboard EXCEPT
                                 !.loaded = TRUE, !.at = now,
                                 !.rows = displayPinnedFiles(data, now + offset)]
             /\ UNCHANGED <<pins, repo, now>>

\* The dashboard's load with the browser's clock equal to the server's.
LoadPinnedFiles == loadPinnedFilesWith({0})

\* The Refresh button, whatever the browser's clock says.
Refresh == loadPinnedFilesWith(BrowserOffsets)

\* A click on an enabled checkbox of the table: the change listener adds the
\* cid to selectedCIDs when it is now checked and deletes it otherwise.
CheckboxChange ==
    /\ dashboard.loaded
    /\ \E c \in enabledCids(dashboard.rows), checked \in BOOLEAN :
        dashboard' = [dashboard EXCEPT
                         !.selected = IF checked THEN @ \cup {c} ELSE @ \ {c}]
    /\ UNCHANGED <<pins, repo, now, stamp, resp, firstSeen>>
    /\ UNCHANGED notDash

\* handleSelectAll(checked): every checkbox that is not disabled, hidden by
\* the search filter or not.
handleSelectAll(selected, rows, checked) ==
    IF checked THEN selected \cup enabledCids(rows)
    ELSE selected \ enabledCids(rows)

HandleSelectAll ==
    /\ dashboard.loaded
    /\ \E checked \in BOOLEAN :
        dashboard' = [dashboard EXCEPT
                         !.selected = handleSelectAll(@, dashboard.rows, checked)]
    /\ UNCHANGED <<pins, repo, now, stamp, resp, firstSeen>>
    /\ UNCHANGED notDash

\* performUnpin(cids): POST /unpin with body { cids } (no force); on the
\* answer selectedCIDs is cleared and the table is loaded again.
performUnpin(cids) ==
    /\ UNCHANGED notDash
    /\ \E fails \in [1..Len(cids) -> BOOLEAN],
          lsFails \in BOOLEAN, offset \in BrowserOffsets :
        LET body == [kind |-> "array", cids |-> cids, force |-> FALSE]
            results == unpinFiles(cids, FALSE, pins, fails)
            data == listPinnedFiles(results.pins, {}, now)
            sent == [cids |-> {cids[i] : i \in 1..Len(cids)},
                     shown |-> {cids[i] : i \in 1..Len(cids)}
                                   \cap enabledCids(dashboard.rows)]
        IN  /\ pins' = results.pins
            /\ UNCHANGED <<repo, now>>
            /\ IF lsFails
               THEN /\ resp' = [route |-> "pinned", status |-> 500]
                    /\ dashboard' = [loaded |-> FALSE, at |-> now, rows |-> <<>>,
                                     selected |-> {}, sent |-> sent]
                    /\ UNCHANGED <<stamp, firstSeen>>
               ELSE /\ resp' = [route |-> "pinned", status |-> 200,
                                count |-> Len(data), data |-> data,
                                pinned |-> results.pins, statFails |-> {}]
                    /\ stamp' = [c \in CIDs |->
                                    IF c \in results.pins THEN now ELSE stamp[c]]
                    /\ firstSeen' = [c \in CIDs |->
                                        IF c \in results.pins /\ stamp[c] = NoStamp
                                        THEN now ELSE firstSeen[c]]
                    /\ dashboard' = [loaded |-> TRUE, at |-> now,
                                     rows |-> displayPinnedFiles(data, now + offset),
                                     selected |-> {}, sent |-> sent]

\* The "Unpin selected" button, enabled while selectedCIDs is not empty,
\* with the confirmation of the modal.
UnpinSelected ==
    /\ dashboard.selected # {}
    /\ performUnpin(SelectCids(CidOrder, dashboard.selected))

\* The Unpin button of a row, enabled like its checkbox, with the
\* confirmation of the modal.
UnpinSingle ==
    /\ dashboard.loaded
    /\ \E c \in enabledCids(dashboard.rows) : performUnpin(<<c>>)

\* An unpin request for a single cid, sent while the dashboard is open.
UnpinOther ==
    PostUnpinOf([kind : {"array"}, cids : {<<c>> : c \in CIDs}, force : BOOLEAN])

\* Garbage collection between uploads and unpins.
NextGc ==
    \/ PinAdd
    \/ UnpinOther
    \/ PostGc

\* The handlers behind the middleware.
StatsRoute == Admitted("stats") /\ GetStats

PinnedRoute == Admitted("pinned") /\ GetPinned

UnpinnedRoute == Admitted("unpinned") /\ GetUnpinned

UnpinRoute == Admitted("unpin") /\ UnpinOther

GcRoute == Admitted("gc") /\ PostGc

HealthRoute == Admitted("health") /\ GetHealth

\* The storage-admin routes behind requireStorageAuth, between uploads.
NextAdmin ==
    \/ PinAdd
    \/ AdminRequest
    \/ StatsRoute
    \/ PinnedRoute
    \/ UnpinnedRoute
    \/ UnpinRoute
    \/ GcRoute
    \/ HealthRoute

\* The dashboard's selection of pinned files, between uploads.
NextSelect ==
    \/ PinAdd
    \/ Refresh
    \/ CheckboxChange
    \/ HandleSelectAll
    \/ UnpinSelected
    \/ UnpinSingle

\* The dashboard and the storage routes behind it, with time passing.
NextDash ==
    \/ Tick
    \/ PinAdd
    \/ LoadPinnedFiles
    \/ UnpinOther
    \/ PostGc

(***************************************************************************)
(* Upload Session Tracker (server side: init, transport callback,          *)
(* finalize, expiry reaper)                                                *)
(***************************************************************************)
Uploads == {"u1", "u2"}
Reqs == 1..MaxRequests
NoVideo == 0
SessionTTLHours == 6

NoSession == [exists |-> FALSE, tus_completed |-> FALSE, finalized |-> FALSE,
              video_id |-> NoVideo, expires |-> 0]

IdleReq == [pc |-> "idle"]

IdleUpload ==
    /\ sessions = [u \in Uploads |-> NoSession]
    /\ issued = {}
    /\ videos = {}
    /\ req = [r \in Reqs |-> IdleReq]

\* (mutant) init stores the completion flag the client sent.
initSessionTrustsClient(t, claimed) ==
    [exists |-> TRUE, tus_completed |-> claimed, finalized |-> FALSE,
     video_id |-> NoVideo, expires |-> t + SessionTTLHours]

\* The session document init stores: nothing uploaded, not finalized,
\* whatever the request body says about completion.
initSession(t, claimed) ==
    [exists |-> TRUE, tus_completed |-> FALSE, finalized |-> FALSE,
     video_id |-> NoVideo, expires |-> t + SessionTTLHours]

\* init: a session under a fresh upload id. The body may carry any fields,
\* a completion flag among them.
UploadInit ==
    \E u \in Uploads \ issued, claimed \in BOOLEAN :
        /\ sessions' = [sessions EXCEPT ![u] = initSession(now, claimed)]
        /\ issued' = issued \cup {u}
        /\ UNCHANGED <<videos, req, now>>
        /\ UNCHANGED notUpload

\* The resumable transport reports that all bytes of the upload arrived.
TransportComplete ==
    \E u \in Uploads :
        /\ sessions[u].exists
        /\ ~sessions[u].tus_completed
        /\ sessions' = [sessions EXCEPT ![u].tus_completed = TRUE]
        /\ UNCHANGED <<issued, videos, req, now>>
        /\ UNCHANGED notUpload

\* The expiry reaper deletes an expired session that was never finalized.
reapable(session, t) == session.exists /\ session.expires < t /\ ~session.finalized

Reap ==
    \E u \in Uploads :
        /\ reapable(sessions[u], now)
        /\ sessions' = [sessions EXCEPT ![u] = NoSession]
        /\ UNCHANGED <<issued, videos, req, now>>
        /\ UNCHANGED notUpload

\* The expires_ttl index of temp_uploads (expireAfterSeconds: 0): the
\* database deletes a document once its expires date has passed; the index
\* has no filter on any other field.
ttlExpired(session, t) == session.exists /\ session.expires < t

TtlEvict ==
    \E u \in Uploads :
        /\ "expires_ttl" \in indexes
        /\ ttlExpired(sessions[u], now)
        /\ sessions' = [sessions EXCEPT ![u] = NoSession]
        /\ UNCHANGED <<issued, videos, req, now>>
        /\ UNCHANGED notUpload

\* (mutant) the readiness check looks at finalized only.
finalizeCheckSkipsTus(session) ==
    IF ~session.exists THEN "NotFoundError"
    ELSE IF session.finalized THEN "AlreadyFinalizedError"
    ELSE "proceed"

\* What finalize decides from the session document it loaded.
finalizeCheck(session) ==
    IF ~session.exists THEN "NotFoundError"
    ELSE IF ~session.tus_completed THEN "NotReadyError"
    ELSE IF session.finalized THEN "AlreadyFinalizedError"
    ELSE "proceed"

\* (mutant) the check-and-set trusts the document loaded earlier.
casFinalizedStale(stored, seen) == ~seen.finalized

\* The atomic check-and-set on finalized: it wins only while the stored
\* document is still there and not finalized.
casFinalized(stored, seen) == stored.exists /\ ~stored.finalized

\* (mutant) the success path links the video but leaves finalized as it was.
finalizeSessionKeepsFlag(session, vid) == [session EXCEPT !.video_id = vid]

\* (mutant) the success path sets finalized without linking the video.
finalizeSessionUnlinked(session, vid) == [session EXCEPT !.finalized = TRUE]

\* The session as a successful finalize leaves it.
finalizeSession(session, vid) ==
    [session EXCEPT !.finalized = TRUE, !.video_id = vid]

\* finalize, first step: load the session and answer the error cases.
\* afterOk records whether an earlier finalize of this upload had already
\* answered with success when this request arrived.
FinalizeRead ==
    \E r \in Reqs, u \in Uploads :
        /\ req[r].pc = "idle"
        /\ \A q \in Reqs : q < r => req[q].pc # "idle"
        /\ LET seen == sessions[u]
               decision == finalizeCheck(seen)
               afterOk == \E q \in Reqs : /\ req[q].pc = "done"
                                          /\ req[q].upload = u
                                          /\ req[q].outcome = "ok"
           IN  req' = [req EXCEPT ![r] =
                   [pc |-> IF decision = "proceed" THEN "commit" ELSE "done",
                    upload |-> u, seen |-> seen, afterOk |-> afterOk,
                    outcome |-> IF decision = "proceed" THEN None ELSE decision]]
        /\ UNCHANGED <<sessions, issued, videos, now>>
        /\ UNCHANGED notUpload

\* finalize, second step: check-and-set finalized; the winner creates the
\* VideoRecord (status uploaded) and links it to the session.
FinalizeCommit ==
    \E r \in Reqs :
        /\ req[r].pc = "commit"
        /\ LET u == req[r].upload
           IN  IF casFinalized(sessions[u], req[r].seen)
               THEN /\ videos' = videos \cup
                          {[id |-> r, upload_id |-> u, status |-> "uploaded"]}
                    /\ sessions' = [sessions EXCEPT ![u] = finalizeSession(sessions[u], r)]
                    /\ req' = [req EXCEPT ![r].pc = "done", ![r].outcome = "ok"]
               ELSE /\ req' = [req EXCEPT ![r].pc = "done",
                                          ![r].outcome = finalizeCheck(sessions[u])]
                    /\ UNCHANGED <<videos, sessions>>
        /\ UNCHANGED <<issued, now>>
        /\ UNCHANGED notUpload

NextUpload ==
    \/ UploadInit
    \/ TransportComplete
    \/ Reap
    \/ TtlEvict
    \/ FinalizeRead
    \/ FinalizeCommit
    \/ Tick


(***************************************************************************)
(* Video record and encoding job                                           *)
(***************************************************************************)
Pipeline ==
    <<"uploaded", "encoding_ipfs", "encoding_preparing", "encoding_progress",
      "encoding_completed", "published">>

Published == {"published", "publish_manual"}
Failures == {"failed", "encoding_failed"}
EncodingPhase == {"encoding_ipfs", "encoding_preparing", "encoding_progress",
                  "encoding_completed"}
VideoStatuses == {"uploaded"} \cup EncodingPhase \cup Published \cup Failures

\* Position of a status in the pipeline; published and publish_manual share
\* the last position. Not defined for the failure statuses.
Pos(s) ==
    IF s \in Published THEN Len(Pipeline)
    ELSE CHOOSE i \in 1..Len(Pipeline) : Pipeline[i] = s

NoJob == [status |-> None, pct |-> 0, download_pct |-> 0]
HasJob(j) == j.status # None

JobStatuses == {"queued", "running", "complete", "completed", "failed", "cancelled"}
Pcts == {0, 50, 100}          \* values of job.progress.pct
DownloadPcts == {0, 45, 100}  \* values of job.progress.download_pct

\* (mutant) the write is persisted without looking at the stored status.
writeStatusUnguarded(cur, new) == new

\* The guarded status write: a write into a failure status is taken from
\* any status that is not terminal, any other write only when it moves the
\* record forward; everything else is dropped.
writeStatus(cur, new) ==
    IF cur \in Failures \cup Published THEN cur
    ELSE IF new \in Failures THEN new
    ELSE IF Pos(new) > Pos(cur) THEN new
    ELSE cur

\* Statuses each actor writes.
Actors == {"finalize", "encoder", "publisher"}
Writes(actor) ==
    CASE actor = "finalize" -> {"uploaded"}
      [] actor = "encoder" -> EncodingPhase \cup Failures
      [] actor = "publisher" -> Published \cup {"failed"}

NoWrite == [actor |-> None, status |-> None, before |-> None, dropped |-> FALSE]

\* A status write by one of the three actors, at any time (late or not).
StatusWrite(actor) ==
    \E s \in Writes(actor) :
        /\ vstatus' = writeStatus(vstatus, s)
        /\ lastWrite' = [actor |-> actor, status |-> s, before |-> vstatus,
                         dropped |-> writeStatus(vstatus, s) # s]
        /\ UNCHANGED <<job, poller>>
        /\ UNCHANGED notPipe

FinalizeWrite == StatusWrite("finalize")
EncoderWrite == StatusWrite("encoder")
PublisherWrite == StatusWrite("publisher")

\* The external encoder's job: created queued, runs (download first, then
\* transcode), ends complete / completed / failed / cancelled; the job store
\* is ephemeral, a job may become unavailable.
JobCreate ==
    /\ ~HasJob(job)
    /\ job' = [status |-> "queued", pct |-> 0, download_pct |-> 0]
    /\ UNCHANGED <<vstatus, lastWrite, poller>>
    /\ UNCHANGED notPipe

JobRun ==
    /\ job.status = "queued"
    /\ job' = [job EXCEPT !.status = "running"]
    /\ UNCHANGED <<vstatus, lastWrite, poller>>
    /\ UNCHANGED notPipe

JobProgress ==
    /\ job.status = "running"
    /\ \/ /\ job.download_pct < 100
          /\ \E d \in DownloadPcts : d > job.download_pct
                                     /\ job' = [job EXCEPT !.download_pct = d]
       \/ /\ job.download_pct = 100
          /\ \E p \in Pcts : p > job.pct /\ job' = [job EXCEPT !.pct = p]
    /\ UNCHANGED <<vstatus, lastWrite, poller>>
    /\ UNCHANGED notPipe

JobEnd ==
    /\ job.status = "running"
    /\ job.download_pct = 100
    /\ job.pct = 100
    /\ \E s \in {"complete", "completed"} : job' = [job EXCEPT !.status = s]
    /\ UNCHANGED <<vstatus, lastWrite, poller>>
    /\ UNCHANGED notPipe

JobFail ==
    /\ job.status \in {"queued", "running"}
    /\ \E s \in {"failed", "cancelled"} : job' = [job EXCEPT !.status = s]
    /\ UNCHANGED <<vstatus, lastWrite, poller>>
    /\ UNCHANGED notPipe

JobVanish ==
    /\ job.status \in {"complete", "completed", "failed", "cancelled"}
    /\ job' = NoJob
    /\ UNCHANGED <<vstatus, lastWrite, poller>>
    /\ UNCHANGED notPipe

(***************************************************************************)
(* Client reconcilers: status labels                                       *)
(***************************************************************************)
Label(text) == [text |-> text, pct |-> -1]
LabelPct(text, pct) == [text |-> text, pct |-> pct]

PublishedLabel == Label("Published to Hive!")
FailedLabel == Label("Encoding Failed")

\* job?.progress?.pct || 0 and job?.progress?.download_pct || 0
jobPct(j) == IF HasJob(j) THEN j.pct ELSE 0
jobDownloadPct(j) == IF HasJob(j) THEN j.download_pct ELSE 0

\* (mutant) the failure check is made before the published check.
getStatusLabelFailureFirst(video, j) ==
    IF video \in Failures \/ j.status = "failed" THEN FailedLabel
    ELSE IF video \in Published THEN PublishedLabel
    ELSE IF video = "uploaded" THEN Label("Waiting for encoding...")
    ELSE IF HasJob(j) /\ j.status = "queued" THEN Label("Queued for encoding...")
    ELSE IF HasJob(j) /\ j.status = "running" THEN LabelPct("Encoding: %", jobPct(j))
    ELSE IF HasJob(j) /\ j.status = "complete"
         THEN Label("Encoding complete! Publishing...")
    ELSE IF video \in {"encoding_ipfs", "encoding_preparing", "encoding_progress"}
         THEN Label("Processing...")
    ELSE Label(video)

\* ThreeSpeakUploader.getStatusLabel of the integration guide.
getStatusLabel(video, j) ==
    IF video \in Published THEN PublishedLabel
    ELSE IF video \in Failures \/ j.status = "failed" THEN FailedLabel
    ELSE IF video = "uploaded" THEN Label("Waiting for encoding...")
    ELSE IF HasJob(j) /\ j.status = "queued" THEN Label("Queued for encoding...")
    ELSE IF HasJob(j) /\ j.status = "running" THEN LabelPct("Encoding: %", jobPct(j))
    ELSE IF HasJob(j) /\ j.status = "complete"
         THEN Label("Encoding complete! Publishing...")
    ELSE IF video \in {"encoding_ipfs", "encoding_preparing", "encoding_progress"}
         THEN Label("Processing...")
    ELSE Label(video)

\* The status -> label table both older label functions fall back to
\* (labels[video.status] || video.status).
labelTable_docs(video) ==
    CASE video = "uploaded" -> Label("Waiting for encoding...")
      [] video = "encoding_ipfs" -> Label("Encoding in progress...")
      [] video = "encoding_preparing" -> Label("Preparing encode...")
      [] video = "encoding_progress" -> Label("Encoding...")
      [] video = "encoding_completed" -> Label("Encoding complete!")
      [] video = "published" -> PublishedLabel
      [] video = "failed" -> Label("Failed")
      [] OTHER -> Label(video)

\* ThreeSpeakUploader.getStatusLabel of docs/FRONTEND_API_INTEGRATION.md:
\* the job is looked at first.
getStatusLabel_docs(video, j) ==
    IF HasJob(j) /\ j.status = "complete" THEN Label("Encoding Complete!")
    ELSE IF HasJob(j) /\ j.status = "running" THEN LabelPct("Encoding: %", jobPct(j))
    ELSE IF HasJob(j) /\ j.status = "queued" THEN Label("Waiting for encoder...")
    ELSE IF HasJob(j) /\ j.status = "failed" THEN FailedLabel
    ELSE labelTable_docs(video)

\* function getStatusLabel of the "3-Phase Flow" section.
getStatusLabel3Phase(video, j) ==
    IF video \in Published THEN PublishedLabel
    ELSE IF video \in Failures \/ j.status = "failed" THEN FailedLabel
    ELSE IF video = "uploaded" THEN Label("Waiting for encoding to start...")
    ELSE IF HasJob(j) /\ j.status = "queued" THEN Label("Queued for encoding...")
    ELSE IF HasJob(j) /\ j.status = "running" THEN LabelPct("Encoding: %", jobPct(j))
    ELSE IF HasJob(j) /\ j.status = "complete"
         THEN Label("Encoding complete! Publishing to Hive...")
    ELSE Label("Processing (" \o video \o ")...")

\* function getStatusLabel of "Status Polling Best Practices"
\* (docs/FRONTEND_API_INTEGRATION.md).
getStatusLabelBestPractices(video, j) ==
    IF HasJob(j) /\ j.status = "complete" THEN Label("Encoding Complete!")
    ELSE IF HasJob(j) /\ j.status = "running" THEN LabelPct("Encoding: %", jobPct(j))
    ELSE IF HasJob(j) /\ j.status = "queued" THEN Label("Waiting for encoder...")
    ELSE IF HasJob(j) /\ j.status = "failed" THEN FailedLabel
    ELSE CASE video = "uploaded" -> Label("Waiting for encoding to start...")
           [] video \in {"encoding_ipfs", "encoding_preparing", "encoding_progress"}
                -> Label("Encoding in progress...")
           [] video = "encoding_completed" -> Label("Encoding complete!")
           [] video = "published" -> PublishedLabel
           [] video = "failed" -> Label("Failed")
           [] OTHER -> Label(video)

\* UploadFirstAutoSubmit._getStatusLabel
_getStatusLabel(video, j) ==
    IF video \in Published THEN PublishedLabel
    ELSE IF video = "failed" \/ j.status = "failed" THEN FailedLabel
    ELSE IF HasJob(j) /\ j.status = "queued" THEN Label("Queued for encoding...")
    ELSE IF HasJob(j) /\ j.status = "running"
         THEN IF jobDownloadPct(j) < 100
              THEN LabelPct("Downloading: %", jobDownloadPct(j))
              ELSE LabelPct("Encoding: %", jobPct(j))
    ELSE IF HasJob(j) /\ j.status = "complete" THEN Label("Publishing to Hive...")
    ELSE IF video = "uploaded" THEN Label("Waiting for encoder...")
    ELSE Label("Processing...")

\* getStatusLabelFirst of the demo application (the video record of the
\* model carries no encodingProgress, so the table shows 0 for it).
getStatusLabelFirst(video, j) ==
    IF HasJob(j) /\ j.status = "queued"
    THEN Label("Waiting for encoder to pick up job...")
    ELSE IF HasJob(j) /\ j.status = "running"
         THEN IF jobDownloadPct(j) < 100
              THEN LabelPct("Downloading from IPFS: %", jobDownloadPct(j))
              ELSE IF jobPct(j) > 0 THEN LabelPct("Encoding: %", jobPct(j))
              ELSE Label("Encoder processing...")
    ELSE IF HasJob(j) /\ j.status \in {"complete", "completed"}
         THEN Label("Encoding complete! Publishing...")
    ELSE IF HasJob(j) /\ j.status = "failed" THEN Label("Encoding failed")
    ELSE IF HasJob(j) /\ j.status = "cancelled" THEN Label("Job cancelled")
    ELSE CASE video = "uploaded" -> Label("Uploaded - Creating encoding job...")
           [] video = "encoding_ipfs" -> Label("Uploading to IPFS...")
           [] video = "encoding_preparing" -> Label("Preparing encoding job...")
           [] video = "encoding_progress" -> LabelPct("Encoding in progress... %", 0)
           [] video = "encoding_completed" -> Label("Encoding complete!")
           [] video = "published" -> PublishedLabel
           [] video = "failed" -> Label("Failed")
           [] video = "encoding_failed" -> Label("Encoding failed")
           [] OTHER -> Label("Status: " \o video)

IdleStorage ==
    /\ pins = {}
    /\ repo = {}
    /\ now = 0
    /\ stamp = [c \in CIDs |-> NoStamp]
    /\ resp = NoResp

(***************************************************************************)
(* Client polling loops: one iteration each                                *)
(***************************************************************************)
\* An iteration gives: the update handed to the client (NoUpdate when the
\* status request failed), whether the loop stops, and why. "success" is
\* the stop of the published / complete branch, "failure" the stop of the
\* failure branch, "error" a stop in the catch block.
NoUpdate == [video |-> None]

Iteration(update, outcome) ==
    [update |-> update, stop |-> outcome # {}, outcome |-> outcome]

\* ThreeSpeakUploader.pollUntilPublished of the integration guide: the
\* callback of setInterval.
pollUntilPublished(video, j, reqFails) ==
    IF reqFails THEN Iteration(NoUpdate, {"error"})
    ELSE Iteration(
            [video |-> video, job |-> j,
             progress |-> jobPct(j),
             statusLabel |-> getStatusLabel(video, j),
             isComplete |-> video \in Published,
             isFailed |-> video \in Failures \/ j.status = "failed"],
            (IF video \in Published THEN {"success"} ELSE {})
            \cup (IF video \in Failures \/ j.status = "failed"
                  THEN {"failure"} ELSE {}))

\* ThreeSpeakUploader.pollUntilPublished of docs/FRONTEND_API_INTEGRATION.md.
pollUntilPublished_docs(video, j, reqFails) ==
    IF reqFails THEN Iteration(NoUpdate, {"error"})
    ELSE Iteration(
            [video |-> video, job |-> j,
             progress |-> jobPct(j),
             statusLabel |-> getStatusLabel_docs(video, j),
             isComplete |-> video = "published" \/ j.status = "complete",
             isFailed |-> video = "failed" \/ j.status = "failed"],
            (IF video = "published" \/ j.status = "complete" THEN {"success"} ELSE {})
            \cup (IF video = "failed" \/ j.status = "failed" THEN {"failure"} ELSE {}))

\* pollVideoStatus of the "3-Phase Flow" section: the body of the while
\* loop; a failed request is caught and the loop goes on.
pollVideoStatus(video, j, reqFails) ==
    IF reqFails THEN Iteration(NoUpdate, {})
    ELSE Iteration(
            [video |-> video, job |-> j,
             progress |-> jobPct(j),
             statusLabel |-> getStatusLabel3Phase(video, j),
             isComplete |-> video \in Published,
             isFailed |-> video \in Failures \/ j.status = "failed"],
            IF video \in Published THEN {"success"}
            ELSE IF video \in Failures \/ j.status = "failed" THEN {"failure"}
            ELSE {})

\* pollVideoStatus of docs/FRONTEND_API_INTEGRATION.md.
pollVideoStatus_docs(video, j, reqFails) ==
    IF reqFails THEN Iteration(NoUpdate, {})
    ELSE Iteration(
            [video |-> video, job |-> j,
             progress |-> jobPct(j),
             statusLabel |-> getStatusLabelBestPractices(video, j),
             isComplete |-> video = "published" \/ j.status = "complete",
             isFailed |-> video = "failed" \/ j.status = "failed"],
            IF video = "published" \/ j.status = "complete" THEN {"success"}
            ELSE IF video = "failed" \/ j.status = "failed" THEN {"failure"}
            ELSE {})

\* UploadFirstAutoSubmit._startEncodingPolling: one run of poll(); a failed
\* request is caught and poll is scheduled again.
_startEncodingPolling(video, j, reqFails) ==
    IF reqFails THEN Iteration(NoUpdate, {})
    ELSE LET isComplete == video \in Published
             isFailed == video = "failed" \/ j.status = "failed" IN
         Iteration(
            [video |-> video, job |-> j,
             progress |-> jobPct(j),
             statusLabel |-> _getStatusLabel(video, j),
             isComplete |-> isComplete,
             isFailed |-> isFailed],
            IF isComplete THEN {"success"}
            ELSE IF isFailed THEN {"failure"}
            ELSE {})

\* pollVideoStatusFirst of the demo application: the body of the while loop.
pollVideoStatusFirst(video, j, reqFails) ==
    IF reqFails THEN Iteration(NoUpdate, {})
    ELSE Iteration(
            [video |-> video, job |-> j,
             statusLabel |-> getStatusLabelFirst(video, j)],
            IF video = "published" \/ video = "encoding_completed"
               \/ j.status = "complete" \/ j.status = "completed"
            THEN {"success"}
            ELSE IF video \in Failures \/ j.status = "failed" THEN {"failure"}
            ELSE {})

Loops ==
    {"pollUntilPublished", "pollUntilPublished_docs", "pollVideoStatus",
     "pollVideoStatus_docs", "_startEncodingPolling", "pollVideoStatusFirst"}

\* Loops that give up after maxAttempts iterations (120 and 60 in the
\* sources; the model explores PollAttemptsCap of them).
BoundedLoops == {"pollVideoStatus", "pollVideoStatus_docs", "pollVideoStatusFirst"}

\* Loops whose update carries isComplete and isFailed.
FlagLoops == Loops \ {"pollVideoStatusFirst"}

iterate(loop, video, j, reqFails) ==
    CASE loop = "pollUntilPublished" -> pollUntilPublished(video, j, reqFails)
      [] loop = "pollUntilPublished_docs" -> pollUntilPublished_docs(video, j, reqFails)
      [] loop = "pollVideoStatus" -> pollVideoStatus(video, j, reqFails)
      [] loop = "pollVideoStatus_docs" -> pollVideoStatus_docs(video, j, reqFails)
      [] loop = "_startEncodingPolling" -> _startEncodingPolling(video, j, reqFails)
      [] loop = "pollVideoStatusFirst" -> pollVideoStatusFirst(video, j, reqFails)

\* One poll of the running loop: the status request reads the video record
\* and the job as they are now, or fails.
Poll ==
    /\ poller.loop # None
    /\ poller.running
    /\ \E reqFails \in BOOLEAN :
        LET it == iterate(poller.loop, vstatus, job, reqFails)
            n == IF poller.loop \in BoundedLoops THEN poller.attempts + 1 ELSE 0
            timedOut == ~it.stop /\ poller.loop \in BoundedLoops /\ n >= PollAttemptsCap
        IN poller' = [loop |-> poller.loop,
                      running |-> ~it.stop /\ ~timedOut,
                      attempts |-> n,
                      outcome |-> IF timedOut THEN {"timeout"} ELSE it.outcome,
                      update |-> IF reqFails THEN poller.update ELSE it.update]
    /\ UNCHANGED <<vstatus, job, lastWrite>>
    /\ UNCHANGED notPipe

\* The video record moves on while a client polls (any actor, any write).
VideoWrite ==
    /\ \E actor \in Actors : \E s \in Writes(actor) :
           vstatus' = writeStatus(vstatus, s)
    /\ UNCHANGED <<job, lastWrite, poller>>
    /\ UNCHANGED notPipe

(***************************************************************************)
(* Progress shown to the client                                            *)
(***************************************************************************)
\* Progress values are kept in tenths of a percent (875 is 87.5%).
Tenths(pct) == 10 * pct
NoProgress == -1

\* VideoUploadApp.handleStatusUpdate: the percentage passed to updateStatus.
handleStatusUpdate(video, enc, j) ==
    LET progress == IF jobPct(j) # 0 THEN jobPct(j) ELSE enc
        scaled == Tenths(80) + (3 * progress) \div 2     \* 80 + progress * 0.15
    IN  CASE video = "uploaded" -> Tenths(75)
          [] video = "encoding_ipfs" ->
                 IF j.status = "queued" THEN Tenths(80)
                 ELSE IF j.status = "running" THEN scaled
                 ELSE Tenths(78)
          [] video = "encoding_preparing" -> Tenths(82)
          [] video = "encoding_progress" -> scaled
          [] video = "encoding_completed" -> Tenths(98)
          [] video \in Published -> Tenths(100)
          [] video \in Failures -> Tenths(0)
          [] OTHER -> Tenths(80)

ProgressHandlers == {"handleStatusUpdate", "pollUntilPublished"}

\* The number a handler puts on screen for one status answer.
shownProgress(handler, video, enc, j) ==
    CASE handler = "handleStatusUpdate" -> handleStatusUpdate(video, enc, j)
      [] handler = "pollUntilPublished" ->
             Tenths(pollUntilPublished(video, j, FALSE).update.progress)

NoDisplay == [handler |-> None, cur |-> NoProgress, prev |-> NoProgress]

IdleDisplay ==
    /\ encodingProgress = 0
    /\ display = NoDisplay

\* One poll: the handler renders the status answer of this moment.
ShowProgress ==
    /\ display.handler # None
    /\ display' = [handler |-> display.handler,
                   cur |-> shownProgress(display.handler, vstatus, encodingProgress, job),
                   prev |-> display.cur]
    /\ UNCHANGED <<encodingProgress, vstatus, job>>
    /\ UNCHANGED notDisplay

\* The video record advances along the pipeline (no failure, no step back).
VideoAdvance ==
    /\ \E s \in VideoStatuses \ Failures :
           /\ vstatus \notin Published
           /\ Pos(s) > Pos(vstatus)
           /\ vstatus' = s
    /\ UNCHANGED <<encodingProgress, display, job>>
    /\ UNCHANGED notDisplay

\* The encoder reports a higher encodingProgress on the video record.
EncodingProgressAdvance ==
    /\ vstatus \in EncodingPhase
    /\ \E p \in Pcts : p > encodingProgress /\ encodingProgress' = p
    /\ UNCHANGED <<display, vstatus, job>>
    /\ UNCHANGED notDisplay

(***************************************************************************)
(* UploadFirstAutoSubmit: upload on file selection, finalize when the      *)
(* upload is complete and the user has clicked Save                        *)
(***************************************************************************)
NoUploadId == 0

\* No finalize request sent yet. Of the latest request sent: its upload_id,
\* the two flags when it was sent, whether the TUS upload of that upload_id
\* had succeeded, and the requests in flight before it.
NoFinalizeSent ==
    [upload_id |-> NoUploadId, uploadComplete |-> FALSE, userWantsToSubmit |-> FALSE,
     tusDone |-> FALSE, inFlightBefore |-> 0]

\* The object after its constructor, with its environment: the files
\* selected so far (the k-th file gets upload_id k), the init requests
\* awaiting their response, each tus.Upload object, and the finalize
\* requests in flight.
NewAutoSubmit ==
    [uploadId |-> NoUploadId, uploadComplete |-> FALSE, tusUpload |-> NoUploadId,
     userWantsToSubmit |-> FALSE, isSubmitting |-> FALSE, videoId |-> NoUploadId,
     files |-> 0, initPending |-> {},
     tus |-> [k \in 1..MaxFiles |-> "none"],
     inFlight |-> <<>>, sends |-> 0, sent |-> NoFinalizeSent, event |-> None]


(***************************************************************************)
(* DemoApp: the upload-first form of the demo page                         *)
(***************************************************************************)
maxRetries == 3

NotReady == "TUS upload not completed yet"

\* What a finalize request can end with: success, the two rejections of the
\* route, or no response at all.
FinalizeAnswers == {"ok", NotReady, "Upload already finalized", "network"}

\* Nothing reported by the catch block of the submit.
NoReport == [failed |-> FALSE, formEnabled |-> FALSE, videoId |-> NoUploadId]

\* No submit running: position, upload_id of its form data, retries counted,
\* requests sent, their answers, currentVideoId when it started, and the
\* report of its catch block.
NoSubmit ==
    [pc |-> "idle", upload_id |-> NoUploadId, retries |-> 0, requests |-> 0,
     answers |-> <<>>, before |-> NoUploadId, reported |-> NoReport]

\* The page as loaded: no upload data, the finalize button disabled, no file
\* selected (the k-th file gets upload_id k), no init awaiting its response,
\* no upload started.
NewDemoApp ==
    [uploadFirstData |-> NoUploadId, currentVideoId |-> NoUploadId,
     finalizeBtn |-> FALSE, files |-> 0, starting |-> {},
     tus |-> [k \in 1..MaxFiles |-> "none"], submit |-> NoSubmit]

IdleClient ==
    /\ auto = NewAutoSubmit
    /\ demo = NewDemoApp

\* handleUploadFirstStart, up to its fetch of /api/upload/init.
UploadFirstSelect ==
    /\ demo.files < MaxFiles
    /\ demo' = [demo EXCEPT !.files = @ + 1, !.starting = @ \cup {demo.files + 1}]
    /\ UNCHANGED <<auto, notClient>>

\* uploadClient.uploadVideo(file, { upload_id }, ...): the client runs one
\* upload at a time.
uploadVideo(tus, k) ==
    [j \in 1..MaxFiles |-> IF j = k THEN "running"
                           ELSE IF tus[j] = "running" THEN "aborted" ELSE tus[j]]

\* handleUploadFirstStart after the init response: the upload data is kept
\* and the TUS upload is started, or the failure is shown.
UploadFirstInit ==
    /\ \E k \in demo.starting, ok \in BOOLEAN :
        demo' = IF ok
                THEN [demo EXCEPT !.starting = @ \ {k},
                                  !.uploadFirstData = k,
                                  !.tus = uploadVideo(@, k)]
                ELSE [demo EXCEPT !.starting = @ \ {k}]
    /\ UNCHANGED <<auto, notClient>>

\* The success callback of the upload: the finalize button is enabled.
UploadFirstComplete ==
    /\ \E k \in 1..MaxFiles :
        /\ demo.tus[k] = "running"
        /\ demo' = [demo EXCEPT !.tus[k] = "done", !.finalizeBtn = TRUE]
    /\ UNCHANGED <<auto, notClient>>

\* The error callback of the upload.
UploadFirstError ==
    /\ \E k \in 1..MaxFiles :
        /\ demo.tus[k] = "running"
        /\ demo' = [demo EXCEPT !.tus[k] = "failed"]
    /\ UNCHANGED <<auto, notClient>>

\* resetUploadFirstForm: the button is disabled, the upload data dropped and
\* the current upload cancelled.
ResetUploadFirstForm ==
    /\ demo' = [demo EXCEPT
                   !.finalizeBtn = FALSE,
                   !.uploadFirstData = NoUploadId,
                   !.currentVideoId = NoUploadId,
                   !.tus = [k \in 1..MaxFiles |->
                               IF @[k] = "running" THEN "aborted" ELSE @[k]]]
    /\ UNCHANGED <<auto, notClient>>

\* handleUploadFirstFinalize, from the submit of the form (its button is
\* enabled) to its first delay; without upload data it only alerts.
FinalizeSubmit ==
    /\ demo.finalizeBtn
    /\ demo.submit.pc \in {"idle", "created"}
    /\ demo.uploadFirstData # NoUploadId
    /\ demo' = [demo EXCEPT !.submit = [NoSubmit EXCEPT
                                            !.pc = "delay",
                                            !.before = demo.currentVideoId]]
    /\ UNCHANGED <<auto, notClient>>

\* The catch block: failure is reported, the button and the form are enabled.
finalizeFailed(d) ==
    [d EXCEPT !.finalizeBtn = TRUE,
              !.submit.pc = "idle",
              !.submit.reported = [failed |-> TRUE, formEnabled |-> TRUE,
                                   videoId |-> d.currentVideoId]]

\* After the delay: the form is disabled, the form data is collected and the
\* first finalize request is sent; without upload data the collection throws.
FinalizeSend ==
    /\ demo.submit.pc = "delay"
    /\ demo' = IF demo.uploadFirstData = NoUploadId
               THEN finalizeFailed([demo EXCEPT !.finalizeBtn = FALSE])
               ELSE [demo EXCEPT !.finalizeBtn = FALSE,
                                 !.submit.pc = "fetch",
                                 !.submit.upload_id = demo.uploadFirstData,
                                 !.submit.requests = 1]
    /\ UNCHANGED <<auto, notClient>>

\* (mutant) every rejection is retried.
shouldRetryAnyError(error, retries) == retries < maxRetries - 1

\* errorData.error === 'TUS upload not completed yet' && retries < maxRetries - 1
shouldRetry(error, retries) == error = NotReady /\ retries < maxRetries - 1

\* The answer of a finalize request inside the retry loop: success leaves the
\* loop and keeps the video id, a retried rejection waits, anything else is
\* thrown to the catch block.
FinalizeAnswer ==
    /\ demo.submit.pc = "fetch"
    /\ \E answer \in FinalizeAnswers :
        LET d == [demo EXCEPT !.submit.answers = Append(@, answer)] IN
        demo' = IF answer = "ok"
                THEN [d EXCEPT !.currentVideoId = d.submit.upload_id,
                               !.submit.pc = "created"]
                ELSE IF answer # "network" /\ shouldRetry(answer, d.submit.retries)
                THEN [d EXCEPT !.submit.retries = @ + 1, !.submit.pc = "backoff"]
                ELSE finalizeFailed(d)
    /\ UNCHANGED <<auto, notClient>>

\* After the wait of a retry: the loop sends the request again.
FinalizeResend ==
    /\ demo.submit.pc = "backoff"
    /\ demo' = [demo EXCEPT !.submit.pc = "fetch", !.submit.requests = @ + 1]
    /\ UNCHANGED <<auto, notClient>>

\* The upload-first form under any order of its user's actions and of the
\* callbacks of its requests.
NextDemo ==
    \/ UploadFirstSelect
    \/ UploadFirstInit
    \/ UploadFirstComplete
    \/ UploadFirstError
    \/ ResetUploadFirstForm
    \/ FinalizeSubmit
    \/ FinalizeSend
    \/ FinalizeAnswer
    \/ FinalizeResend

\* reset(): the fields of the object; this.tusUpload is dropped, not aborted.
reset(a) ==
    [a EXCEPT !.uploadId = NoUploadId, !.uploadComplete = FALSE,
              !.tusUpload = NoUploadId, !.userWantsToSubmit = FALSE,
              !.isSubmitting = FALSE, !.videoId = NoUploadId]

\* _finalizeUpload() up to its fetch: isSubmitting is set and the request
\* for this.uploadId is sent (the duration of the file is already known).
finalizeUpload(a) ==
    IF a.isSubmitting THEN a
    ELSE [a EXCEPT !.isSubmitting = TRUE,
                   !.inFlight = Append(@, a.uploadId),
                   !.sends = @ + 1,
                   !.sent = [upload_id |-> a.uploadId,
                             uploadComplete |-> a.uploadComplete,
                             userWantsToSubmit |-> a.userWantsToSubmit,
                             tusDone |-> a.uploadId # NoUploadId
                                         /\ a.tus[a.uploadId] = "done",
                             inFlightBefore |-> Len(a.inFlight)]]

\* _checkAutoSubmit()
checkAutoSubmit(a) ==
    IF a.uploadComplete /\ a.userWantsToSubmit /\ ~a.isSubmitting
    THEN finalizeUpload(a)
    ELSE a

\* onFileSelected(videoFile), up to its fetch of /api/upload/init.
OnFileSelected ==
    /\ auto.files < MaxFiles
    /\ auto' = [reset(auto) EXCEPT !.files = @ + 1,
                                   !.initPending = @ \cup {auto.files + 1},
                                   !.event = "fileSelected"]
    /\ UNCHANGED <<demo, notClient>>

\* onFileSelected after the init response: the upload_id is kept and the
\* TUS upload is started, or the error is reported.
InitResponse ==
    /\ \E k \in auto.initPending, success \in BOOLEAN :
        auto' = IF success
                THEN [auto EXCEPT !.initPending = @ \ {k},
                                  !.uploadId = k, !.tusUpload = k,
                                  !.tus[k] = "running",
                                  !.event = "initResponse"]
                ELSE [auto EXCEPT !.initPending = @ \ {k},
                                  !.event = "initFailed"]
    /\ UNCHANGED <<demo, notClient>>

\* onSuccess of a tus.Upload object that is running.
TusSuccess ==
    /\ auto.sends < MaxSends
    /\ \E k \in 1..MaxFiles :
        /\ auto.tus[k] = "running"
        /\ auto' = checkAutoSubmit([auto EXCEPT !.tus[k] = "done",
                                                 !.uploadComplete = TRUE,
                                                 !.event = "tusSuccess"])
    /\ UNCHANGED <<demo, notClient>>

\* onError of a tus.Upload object that is running.
TusError ==
    /\ \E k \in 1..MaxFiles :
        /\ auto.tus[k] = "running"
        /\ auto' = [auto EXCEPT !.tus[k] = "failed", !.event = "tusError"]
    /\ UNCHANGED <<demo, notClient>>

\* onSaveClicked(formData): throws without an upload_id, ignores the click
\* while submitting.
OnSaveClicked ==
    /\ auto.sends < MaxSends
    /\ auto.uploadId # NoUploadId
    /\ auto' = IF auto.isSubmitting
               THEN [auto EXCEPT !.event = "saveIgnored"]
               ELSE checkAutoSubmit([auto EXCEPT !.userWantsToSubmit = TRUE,
                                                  !.event = "save"])
    /\ UNCHANGED <<demo, notClient>>

\* The sequence s without its i-th element.
RemoveAt(s, i) == [j \in 1..(Len(s) - 1) |-> IF j < i THEN s[j] ELSE s[j + 1]]

\* _finalizeUpload() after its fetch: the video id is kept, or the catch
\* block clears isSubmitting.
FinalizeResponse ==
    /\ \E i \in 1..Len(auto.inFlight), success \in BOOLEAN :
        auto' = IF success
                THEN [auto EXCEPT !.inFlight = RemoveAt(@, i),
                                  !.videoId = auto.inFlight[i],
                                  !.event = "finalized"]
                ELSE [auto EXCEPT !.inFlight = RemoveAt(@, i),
                                  !.isSubmitting = FALSE,
                                  !.event = "finalizeFailed"]
    /\ UNCHANGED <<demo, notClient>>

\* cancelUpload(): the current tus.Upload object is aborted, then reset().
CancelUpload ==
    /\ auto.uploadId # NoUploadId
    /\ auto' = [reset(auto) EXCEPT
                   !.tus = IF auto.tusUpload # NoUploadId
                              /\ auto.tus[auto.tusUpload] = "running"
                           THEN [auto.tus EXCEPT ![auto.tusUpload] = "aborted"]
                           ELSE auto.tus,
                   !.event = "cancelled"]
    /\ UNCHANGED <<demo, notClient>>

\* An UploadFirstAutoSubmit object under any order of its user's actions and
\* of the callbacks of its requests.
NextAuto ==
    \/ OnFileSelected
    \/ InitResponse
    \/ TusSuccess
    \/ TusError
    \/ OnSaveClicked
    \/ FinalizeResponse
    \/ CancelUpload

InitProgress ==
    /\ vstatus = "uploaded"
    /\ job = NoJob
    /\ lastWrite = NoWrite
    /\ poller = [loop |-> None]
    /\ encodingProgress = 0
    /\ display \in {[handler |-> h, cur |-> NoProgress, prev |-> NoProgress] :
                       h \in ProgressHandlers}
    /\ IdleStorage
    /\ IdleUpload
    /\ IdleDash
    /\ IdleAdmin /\ IdleAgg /\ IdleSetup /\ IdleClient

\* Only advancing steps: the video moves forward, the job is created, runs,
\* downloads, transcodes and ends complete.
NextProgress ==
    \/ ShowProgress
    \/ VideoAdvance
    \/ EncodingProgressAdvance
    \/ JobCreate
    \/ JobRun
    \/ JobProgress
    \/ JobEnd

InitPoll ==
    /\ vstatus = "uploaded"
    /\ job = NoJob
    /\ lastWrite = NoWrite
    /\ poller \in {[loop |-> l, running |-> TRUE, attempts |-> 0, outcome |-> {},
                    update |-> NoUpdate] : l \in Loops}
    /\ IdleStorage
    /\ IdleUpload
    /\ IdleDisplay
    /\ IdleDash
    /\ IdleAdmin /\ IdleAgg /\ IdleSetup /\ IdleClient

NextPoll ==
    \/ VideoWrite
    \/ JobCreate
    \/ JobRun
    \/ JobProgress
    \/ JobEnd
    \/ JobFail
    \/ JobVanish
    \/ Poll

NoPoller == [loop |-> None]

IdlePipe ==
    /\ vstatus = "uploaded"
    /\ job = NoJob
    /\ lastWrite = NoWrite
    /\ poller = NoPoller

InitStatus == IdlePipe /\ IdleStorage /\ IdleUpload /\ IdleDisplay /\ IdleDash /\ IdleAdmin /\ IdleAgg /\ IdleSetup /\ IdleClient

NextStatus ==
    \/ FinalizeWrite
    \/ EncoderWrite
    \/ PublisherWrite
    \/ JobCreate
    \/ JobRun
    \/ JobProgress
    \/ JobEnd
    \/ JobFail
    \/ JobVanish

InitStorage == StartStorage /\ IdlePipe /\ IdleUpload /\ IdleDisplay /\ IdleDash /\ IdleAdmin /\ IdleAgg /\ IdleSetup /\ IdleClient

InitUpload == IdleStorage /\ IdlePipe /\ IdleUpload /\ IdleDisplay /\ IdleDash /\ IdleAdmin /\ IdleAgg /\ IdleSetup /\ IdleClient

\* The storage routes under any sequence of requests, with time passing.
SpecStorage == InitStorage /\ [][NextStorage]_vars

\* The unpin route alone: any sequence of unpin requests against any pin set.
SpecUnpin == InitStorage /\ [][NextUnpin]_vars

\* A client polling loop against the video record and the job as they evolve.
SpecPoll == InitPoll /\ [][NextPoll]_vars

\* The video record, its three writers and the encoder's job.
SpecStatus == InitStatus /\ [][NextStatus]_vars

\* Any collection the script may find: none, or one with some of the
\* indexes, while sessions are created and expire.
InitSetup ==
    /\ indexes \in {{}} \cup {{"_id_"} \cup x :
                       x \in SUBSET ({"upload_id_unique", "expires_ttl"} \cup ForeignIndexes)}
    /\ setup = NoSetup
    /\ IdleStorage
    /\ IdlePipe
    /\ IdleUpload
    /\ IdleDisplay
    /\ IdleDash
    /\ IdleAdmin
    /\ IdleAgg
    /\ IdleClient

NextSetup ==
    \/ SetupConnect
    \/ SetupDropIndexes
    \/ SetupCreateIndex
    \/ SetupVerify
    \/ UploadInit
    \/ Tick
    \/ TtlEvict

\* Runs of the setup script against a collection in use.
SpecSetup == InitSetup /\ [][NextSetup]_vars

InitAgg ==
    /\ library \in Libraries
    /\ inProgress = NoInProgress
    /\ IdleStorage
    /\ IdlePipe
    /\ IdleUpload
    /\ IdleDisplay
    /\ IdleDash
    /\ IdleAdmin
    /\ IdleSetup /\ IdleClient

NextAgg ==
    \/ GetInProgress

\* The aggregator over any collection of VideoRecords.
SpecAgg == InitAgg /\ [][NextAgg]_vars

\* Any configuration of the admin password, any pin set.
InitAdmin ==
    /\ StartStorage
    /\ IdlePipe
    /\ IdleUpload
    /\ IdleDisplay
    /\ IdleDash
    /\ disk = [total |-> DiskTotal, percentUsed |-> 0]
    /\ adminPassword \in Passwords
    /\ IdleAgg /\ IdleSetup /\ IdleClient

\* The storage-admin routes behind their authentication.
SpecAdmin == InitAdmin /\ [][NextAdmin]_vars

\* The statistics routes for every disk usage and repository content.
SpecStats == InitStorage /\ [][NextStats]_vars

\* The gc route between uploads and unpins.
SpecGc == InitStorage /\ [][NextGc]_vars

\* The dashboard's listing against the storage service.
SpecDash == InitStorage /\ [][NextDash]_vars

\* An UploadFirstAutoSubmit object and its requests.
InitAuto ==
    /\ IdleStorage /\ IdlePipe /\ IdleUpload /\ IdleDisplay /\ IdleDash
    /\ IdleAdmin /\ IdleAgg /\ IdleSetup /\ IdleClient

SpecAuto == InitAuto /\ [][NextAuto]_vars

\* The demo page's upload-first form and its requests.
SpecDemo == InitAuto /\ [][NextDemo]_vars

\* The dashboard's selection against the storage service.
SpecSelect == InitStorage /\ [][NextSelect]_vars

\* A client's progress display while video and job only advance.
SpecProgress == InitProgress /\ [][NextProgress]_vars

\* Upload sessions under concurrent finalize requests, with time passing.
SpecUpload == InitUpload /\ [][NextUpload]_vars

(***************************************************************************)
(* Claims about the storage routes                                         *)
(***************************************************************************)
UnpinRan == resp.route = "unpin" /\ resp.status # 400

\* C4 (as claimed): a pin removed by an unpin request with force = false had
\* an age (time of the request minus the timestamp its latest listing gave
\* it) of at least MIN_AGE_HOURS.
C4_NoYoungPinRemovedWithoutForce ==
    (UnpinRan /\ ~resp.body.force) =>
        \A e \in resp.removed :
            e.stamp # NoStamp => e.at - e.stamp >= MIN_AGE_HOURS

\* What the pinning service answers to the i-th pin/rm of a batch, worked
\* out from the request, the pin set before it and the upstream failures.
RECURSIVE PinnedBefore(_, _, _, _)
PinnedBefore(cids, fails, pinned, i) ==
    IF i = 1 THEN pinned
    ELSE LET p == PinnedBefore(cids, fails, pinned, i - 1) IN
         IF ~fails[i - 1] THEN p \ {cids[i - 1]} ELSE p

RmSucceeds(cids, fails, pinned, i) ==
    ~fails[i] /\ cids[i] \in PinnedBefore(cids, fails, pinned, i)

RECURSIVE Picked(_, _, _, _, _)
Picked(cids, fails, pinned, i, wantOk) ==
    IF i > Len(cids) THEN <<>>
    ELSE IF RmSucceeds(cids, fails, pinned, i) = wantOk
         THEN <<cids[i]>> \o Picked(cids, fails, pinned, i + 1, wantOk)
         ELSE Picked(cids, fails, pinned, i + 1, wantOk)

FailedCids(failed) == [i \in 1..Len(failed) |-> failed[i].cid]

\* C8: an unpin request that passes validation is answered 200 whatever
\* pin/rm calls fail; pin/rm was attempted for every cid of the request, in
\* order; success lists exactly the cids whose pin/rm succeeded and failed
\* exactly the cids whose pin/rm failed.
C8_PartialFailureNeverThrows ==
    UnpinRan =>
        LET cids == resp.body.cids IN
        /\ resp.status = 200
        /\ Len(resp.attempts) = Len(cids)
        /\ \A i \in 1..Len(cids) : resp.attempts[i].cid = cids[i]
        /\ resp.success = Picked(cids, resp.fails, resp.pinsBefore, 1, TRUE)
        /\ FailedCids(resp.failed) = Picked(cids, resp.fails, resp.pinsBefore, 1, FALSE)

\* C8 witness: a batch whose first cid fails and whose second succeeds, and
\* a batch in which every cid fails, both answered 200.
C8_Witness ==
    /\ UnpinRan
    /\ resp.status = 200
    /\ Len(resp.body.cids) = 2
    /\ resp.fails[1]
    /\ Len(resp.failed) = 1
    /\ resp.failed[1].cid = resp.body.cids[1]
    /\ resp.success = <<resp.body.cids[2]>>

C8_WitnessAllFailed ==
    /\ UnpinRan
    /\ resp.status = 200
    /\ resp.success = <<>>
    /\ Len(resp.failed) = Len(resp.body.cids)

Occurrences(seq, x) == Cardinality({i \in 1..Len(seq) : seq[i] = x})

InResults(c) == Occurrences(resp.success, c) + Occurrences(FailedCids(resp.failed), c)

\* C9 (as claimed): every requested cid appears exactly once in success and
\* failed together, and no other cid appears.
C9_EachRequestedCidExactlyOnce ==
    UnpinRan =>
        \A c \in CIDs :
            InResults(c) = IF Occurrences(resp.body.cids, c) > 0 THEN 1 ELSE 0

\* C9 (amended): every cid appears in success and failed together exactly
\* as many times as the request lists it: once for a cid listed once, never
\* for a cid that was not requested.
C9_OneResultPerRequestedEntry ==
    UnpinRan =>
        \A c \in CIDs : InResults(c) = Occurrences(resp.body.cids, c)

\* C9 witness: a request that lists the same cid twice; the first pin/rm
\* succeeds, the second fails, and the cid is reported in both lists.
C9_Witness ==
    /\ UnpinRan
    /\ \E c \in CIDs :
        /\ Occurrences(resp.body.cids, c) = 2
        /\ Occurrences(resp.success, c) = 1
        /\ Occurrences(FailedCids(resp.failed), c) = 1

\* C9 witness: a request without duplicates, some cids unpinned, some failed.
C9_WitnessDistinct ==
    /\ UnpinRan
    /\ Len(resp.body.cids) = 2
    /\ resp.body.cids[1] # resp.body.cids[2]
    /\ Len(resp.success) = 1
    /\ Len(resp.failed) = 1

(***************************************************************************)
(* Claims about the reconcilers and the polling loops                      *)
(***************************************************************************)
Polled == poller.loop # None /\ poller.update.video # None

\* The reconcilers of the current integration guide and of
\* UploadFirstAutoSubmit.
CurrentFlagLoops == {"pollUntilPublished", "pollVideoStatus", "_startEncodingPolling"}

C2_JobCompleteIsNotComplete ==
    (Polled /\ poller.loop \in FlagLoops
        /\ poller.update.job.status = "complete"
        /\ poller.update.video = "encoding_ipfs") =>
        ~poller.update.isComplete

\* C3 (as claimed): a polling loop stops on its success branch only when the
\* video status it polled is published or publish_manual.
C3_SuccessStopOnlyWhenPublished ==
    (Polled /\ "success" \in poller.outcome) => poller.update.video \in Published

C10_WitnessAbsorbing ==
    /\ lastWrite.before \in Failures
    /\ lastWrite.status = "published"
    /\ lastWrite.dropped
    /\ vstatus \in Failures

(***************************************************************************)
(* Claims about upload sessions                                            *)
(***************************************************************************)
Done(r) == req[r].pc = "done"
VideosOf(u) == {v \in videos : v.upload_id = u}
OkRequests(u) == {r \in Reqs : Done(r) /\ req[r].upload = u /\ req[r].outcome = "ok"}

C6_AtMostOneVideoPerUpload ==
    \A u \in Uploads : Cardinality(VideosOf(u)) <= 1

\* C6 witness: two requests both read finalized = false for the same
\* transport-completed session; one created the VideoRecord, the other was
\* refused.
C6_Witness ==
    \E r1, r2 \in Reqs :
        /\ r1 # r2
        /\ Done(r1) /\ Done(r2)
        /\ req[r1].upload = req[r2].upload
        /\ req[r1].seen.tus_completed /\ ~req[r1].seen.finalized
        /\ req[r2].seen.tus_completed /\ ~req[r2].seen.finalized
        /\ req[r1].outcome = "ok"
        /\ req[r2].outcome = "AlreadyFinalizedError"
        /\ Cardinality(VideosOf(req[r1].upload)) = 1

\* C7: a finalize that finds its session with tus_completed = false answers
\* NotReadyError at once and changes neither the sessions nor the
\* VideoRecords; and a finalize that loaded the session transport-completed
\* and not finalized succeeds at its check-and-set whenever the stored
\* session is still there and not finalized.
C7_NotReadyChangesNothing ==
    [][\A r \in Reqs :
          /\ (/\ req[r].pc = "idle" /\ req'[r].pc # "idle"
              /\ sessions[req'[r].upload].exists
              /\ ~sessions[req'[r].upload].tus_completed) =>
                 /\ req'[r].pc = "done"
                 /\ req'[r].outcome = "NotReadyError"
                 /\ sessions' = sessions
                 /\ videos' = videos
          /\ (/\ req[r].pc = "commit" /\ req'[r].pc = "done"
              /\ sessions[req[r].upload].exists
              /\ ~sessions[req[r].upload].finalized) =>
                 /\ req'[r].outcome = "ok"
                 /\ sessions'[req[r].upload].finalized
                 /\ sessions'[req[r].upload].video_id = r
                 /\ videos' = videos \cup
                        {[id |-> r, upload_id |-> req[r].upload, status |-> "uploaded"]}
      ]_vars

\* C7 witness: a finalize was refused with NotReadyError, and a later
\* finalize of the same upload succeeded after the transport callback.
C7_Witness ==
    \E r1, r2 \in Reqs :
        /\ r1 < r2
        /\ Done(r1) /\ Done(r2)
        /\ req[r1].upload = req[r2].upload
        /\ req[r1].outcome = "NotReadyError"
        /\ ~req[r1].seen.finalized /\ req[r1].seen.video_id = NoVideo
        /\ req[r2].outcome = "ok"
        /\ sessions[req[r2].upload].finalized
        /\ VideosOf(req[r2].upload) # {}

(***************************************************************************)
(* Claims about the progress signal                                        *)
(***************************************************************************)
\* C11 (as claimed): while the video and the job only advance, the progress
\* a handler shows at one poll is never below what it showed at the poll
\* before.
C11_ShownProgressNeverDecreases ==
    (display.prev # NoProgress) => display.cur >= display.prev

\* C12 (as claimed): when the polled video is not published and the video is
\* failed / encoding_failed or the job is failed / cancelled, the loop stops
\* on its failure branch and the update it hands out has isFailed = true.
C12_FailureFromEitherSourceStops ==
    (/\ Polled
     /\ poller.update.video \notin Published
     /\ \/ poller.update.video \in Failures
        \/ poller.update.job.status \in {"failed", "cancelled"}) =>
        /\ "failure" \in poller.outcome
        /\ ~poller.running
        /\ poller.loop \in FlagLoops => poller.update.isFailed

\* C13 (as claimed): for an encoding-phase video with a running job, label
\* and numeric progress follow download_pct while it is below 100 (and are
\* not 0 when download_pct > 0, even for pct = 0), and follow pct once
\* download_pct is 100.
C13_DownloadSubPhaseReported ==
    (/\ Polled
     /\ poller.loop \in CurrentFlagLoops
     /\ poller.update.video \in EncodingPhase
     /\ poller.update.job.status = "running") =>
        LET j == poller.update.job IN
        IF j.download_pct < 100
        THEN /\ poller.update.statusLabel.pct = j.download_pct
             /\ j.download_pct > 0 => poller.update.progress > 0
        ELSE /\ poller.update.statusLabel.pct = j.pct
             /\ poller.update.progress = j.pct

\* C14 (as claimed): the numeric progress is 100 only for a published
\* video; with the job complete / completed and the video still in an
\* encoding-phase status the progress is below 100 and the label is the
\* "encoding complete, publishing" one.
PublishingLabels == {Label("Encoding complete! Publishing..."), Label("Publishing to Hive...")}

C14_HundredOnlyWhenPublished ==
    (Polled /\ poller.loop \in CurrentFlagLoops) =>
        /\ poller.update.progress = 100 => poller.update.video \in Published
        /\ (/\ poller.update.job.status \in {"complete", "completed"}
            /\ poller.update.video \in EncodingPhase) =>
               /\ poller.update.progress < 100
               /\ poller.update.statusLabel \in PublishingLabels

\* C15 (as claimed): for video.status = uploaded with no failure reported by
\* either source, the label is the "waiting for encoder" one, with or
\* without a job object.
WaitingLabels == {Label("Waiting for encoding..."), Label("Waiting for encoder...")}

C15_UploadedMeansWaiting ==
    (/\ Polled
     /\ poller.loop \in {"pollUntilPublished", "_startEncodingPolling"}
     /\ poller.update.video = "uploaded"
     /\ poller.update.job.status \notin {"failed", "cancelled"}) =>
        poller.update.statusLabel \in WaitingLabels

(***************************************************************************)
(* Claims about pin timestamps, eligibility and garbage collection         *)
(***************************************************************************)
\* C16 (as claimed): as long as a cid stays pinned, every listing hands out
\* for it the timestamp its first listing handed out.
C16_PinTimestampStable ==
    [][\A c \in CIDs :
          (stamp[c] # NoStamp /\ stamp'[c] # NoStamp) => stamp'[c] = stamp[c]]_vars

\* C17 (as claimed): a listing rendered 24 hours or more after the first
\* listing that showed a pin shows the pin as eligible (Unpin enabled).
C17_EligibleAfterMinAge ==
    dashboard.loaded =>
        \A i \in 1..Len(dashboard.rows) :
            LET c == dashboard.rows[i].cid IN
            (firstSeen[c] # NoStamp /\ dashboard.at - firstSeen[c] >= MIN_AGE_HOURS) =>
                dashboard.rows[i].canUnpin

\* C18 (as claimed): the expiry mechanism deletes a session only when it is
\* expired and not finalized; a finalized session is never deleted.
C18_FinalizedSessionNeverDeleted ==
    [][\A u \in Uploads :
          (sessions[u].exists /\ ~sessions'[u].exists) =>
              (~sessions[u].finalized /\ sessions[u].expires < now)]_vars

GcAnswered == resp.route = "gc" /\ resp.status = 200

\* C19: a collection that directly follows a successful collection, with no
\* content written while it runs and no failing upstream call, is answered
\* with success and reports spaceFreed = 0, beforeSize = afterSize.
C19_SecondGcFreesNothing ==
    (resp.route = "gc" /\ resp.afterGc /\ resp.written = {} /\ resp.failAt = None) =>
        /\ resp.status = 200
        /\ resp.data.success
        /\ resp.data.spaceFreed = 0
        /\ resp.data.beforeSize = resp.data.afterSize

\* C19 witness: the first collection freed space, the one right after it
\* freed none, with unpinned-then-collected content gone from the repository.
C19_Witness ==
    /\ GcAnswered
    /\ resp.afterGc
    /\ resp.written = {}
    /\ resp.prevFreed > 0
    /\ resp.data.spaceFreed = 0
    /\ resp.data.beforeSize > 0

\* C20 (as claimed): a collection is answered with success also when the
\* repository grew while it ran, and the spaceFreed it reports is never
\* negative.
C20_SpaceFreedNeverNegative ==
    GcAnswered => (resp.data.success /\ resp.data.spaceFreed >= 0)

(***************************************************************************)
(* Claims about the statistics and the admin routes                        *)
(***************************************************************************)
StatsAnswered == resp.route = "stats" /\ resp.status = 200

\* C21: the health status of getStorageStats follows disk percentUsed alone:
\* up to 60 healthy/green, 61..80 warning/yellow, above 80 critical/red,
\* whatever the repository size.
C21_HealthFromDiskPercent ==
    StatsAnswered =>
        LET p == resp.data.disk.percentUsed IN
        resp.data.status =
               IF p <= 60 THEN [level |-> "healthy", color |-> "green"]
               ELSE IF p <= 80 THEN [level |-> "warning", color |-> "yellow"]
               ELSE [level |-> "critical", color |-> "red"]

\* C21 witness: exactly 60 % used is answered healthy/green, with content in
\* the repository.
C21_Witness ==
    /\ StatsAnswered
    /\ resp.data.disk.percentUsed = 60
    /\ resp.data.status.color = "green"
    /\ resp.data.ipfs.repoSize > 0

Answered == "header" \in DOMAIN resp
HandlerAnswer(r) == "header" \notin DOMAIN r /\ r.route \in AdminRoutes

\* The pair a Basic header carries is the configured one: the user name is
\* the text before the first ':' and the password all the text after it.
pairMatches(credentials, password) ==
    /\ Len(credentials) >= 2
    /\ credentials[1] = validUsername
    /\ Tail(credentials) = password

Unauthenticated ==
    \/ resp.header.scheme # "Basic"
    \/ ~pairMatches(resp.header.credentials, adminPassword)

C23_NoPasswordNoAccess ==
    passwordMissing(adminPassword) =>
        /\ ~HandlerAnswer(resp)
        /\ Answered =>
            /\ ~resp.next
            /\ resp.header.scheme = "Basic" => resp.status = 500
            /\ resp.header.scheme # "Basic" => resp.status = 401

\* C23 witness: the empty password against an empty configured password is
\* answered 500.
C23_Witness ==
    /\ adminPassword = <<"">>
    /\ Answered
    /\ resp.header = [scheme |-> "Basic", credentials |-> <<"admin", "">>]
    /\ resp.status = 500

PinnedAnswered == resp.route = "pinned" /\ resp.status = 200

\* C24: when pin/ls succeeds, listPinnedFiles lists each recursively pinned
\* cid exactly once whatever object/stat calls fail; a cid whose stat failed
\* is listed with size 0, the others with their size.
C24_OneEntryPerPinDespiteStatFailures ==
    PinnedAnswered =>
        /\ Len(resp.data) = Cardinality(resp.pinned)
        /\ resp.count = Cardinality(resp.pinned)
        /\ \A c \in resp.pinned :
            \E i \in 1..Len(resp.data) :
                /\ resp.data[i].cid = c
                /\ resp.data[i].size = IF c \in resp.statFails THEN 0 ELSE CidSize(c)
        /\ \A i \in 1..Len(resp.data) : resp.data[i].cid \in resp.pinned

\* C24 witness: two pins, the stat of one fails, both are listed.
C24_Witness ==
    /\ PinnedAnswered
    /\ resp.pinned = {"QmA", "QmB"}
    /\ resp.statFails = {"QmA"}
    /\ Len(resp.data) = 2

\* C25: no polling loop is stopped by a failed status request: a loop ends
\* on a terminal status or on its attempt limit, never in its catch block.
C25_FailedRequestIsTransient ==
    poller.loop # None => "error" \notin poller.outcome

(***************************************************************************)
(* Claims about the in-progress aggregator                                 *)
(***************************************************************************)
Listed == inProgress.owner # None

\* C26: listInProgress(owner) returns only records of the collection owned
\* by owner whose status is uploaded, encoding_ipfs, encoding_preparing or
\* encoding_progress, at most 10 of them, newest first, and count is the
\* number of videos returned.
C26_OnlyActiveOwnedNewestTen ==
    Listed =>
        LET vs == inProgress.data.videos IN
        /\ \A i \in 1..Len(vs) :
            /\ vs[i].owner = inProgress.owner
            /\ vs[i].status \in ActiveStatuses
            /\ vs[i].video_id \in 1..Len(library)
            /\ library[vs[i].video_id].owner = vs[i].owner
            /\ library[vs[i].video_id].status = vs[i].status
            /\ library[vs[i].video_id].created = vs[i].created
        /\ Len(vs) <= 10
        /\ \A i \in 1..(Len(vs) - 1) : vs[i].created > vs[i + 1].created
        /\ inProgress.data.count = Len(vs)

\* C26 witness: eleven active videos of the owner are cut to ten.
C26_Witness ==
    /\ Listed
    /\ Cardinality({i \in 1..Len(library) :
                       /\ library[i].owner = inProgress.owner
                       /\ library[i].status \in ActiveStatuses}) = 11
    /\ inProgress.data.count = 10

NoActiveVideo ==
    \A i \in 1..Len(library) :
        ~(library[i].owner = inProgress.owner /\ library[i].status \in ActiveStatuses)

\* C27: for an owner without a video in an active status the answer has no
\* videos, count 0 and each of the summary tallies queued, encoding,
\* finishing and failed is 0, whatever number of published or failed videos
\* the owner has.
C27_NoActiveVideoAllZero ==
    (Listed /\ NoActiveVideo) =>
        /\ inProgress.data.videos = <<>>
        /\ inProgress.data.count = 0
        /\ \A p \in {"queued", "encoding", "finishing", "failed"} :
            /\ p \in DOMAIN inProgress.data.summary
            /\ inProgress.data.summary[p] = 0

\* C28: a POST /unpin whose cids is missing, not an array or an empty array
\* is answered 400 and unpins nothing: no pin/rm call is made and the pin
\* set is unchanged.
C28_InvalidCidsRejectedUntouched ==
    [][(/\ resp' # resp
        /\ resp'.route = "unpin"
        /\ \/ resp'.body.kind \in {"missing", "notArray"}
           \/ resp'.body.cids = <<>>)
       => /\ resp'.status = 400
          /\ "attempts" \notin DOMAIN resp'
          /\ pins' = pins
          /\ repo' = repo]_vars

\* C28 witness: an empty array sent with force while pins exist is answered
\* 400.
C28_Witness ==
    /\ resp.route = "unpin"
    /\ resp.body = [kind |-> "array", cids |-> <<>>, force |-> TRUE]
    /\ resp.status = 400
    /\ pins = CIDs

\* C29: tus_completed of a session becomes true only in the step of the
\* transport completion callback, never in init or finalize whatever they
\* are sent, and finalize succeeds only for a session whose transport has
\* reported completion.
C29_OnlyTransportCompletes ==
    [][\A u \in Uploads :
          /\ (sessions'[u].tus_completed /\ ~sessions[u].tus_completed)
                => (TransportComplete /\ sessions[u].exists)
          /\ (sessions'[u].finalized /\ ~sessions[u].finalized)
                => sessions[u].tus_completed]_vars

\* C29 witness: finalize was refused for a session whose transport has not
\* reported, after the other session was finalized.
C29_Witness ==
    \E r \in Reqs, u \in Uploads :
        /\ req[r].pc = "done"
        /\ req[r].outcome = "NotReadyError"
        /\ sessions[req[r].upload].exists
        /\ ~sessions[req[r].upload].tus_completed
        /\ u # req[r].upload
        /\ sessions[u].finalized

(***************************************************************************)
(* Claims about the setup script                                           *)
(***************************************************************************)
\* C30: a run of the setup script that completes leaves exactly the indexes
\* _id_, upload_id_unique, owner_created, tus_finalized_status, video_id and
\* expires_ttl, a later run does not fail and leaves the same set as the run
\* before it, and no step of a run removes a document of the collection.
C30_SetupIdempotentNonDestructive ==
    [][/\ setup' # setup => sessions' = sessions
       /\ setup.runs >= 1 => setup'.pc # "failed"
       /\ (setup'.pc = "done" /\ setup.pc # "done") =>
            /\ indexes' = SetupIndexes
            /\ setup.runs >= 1 => indexes' = setup.left]_vars

\* C30 witness: the second run has completed on a collection that holds a
\* session.
C30_Witness ==
    /\ setup.pc = "done"
    /\ setup.runs = 2
    /\ indexes = SetupIndexes
    /\ setup.left = SetupIndexes
    /\ \E u \in Uploads : sessions[u].exists

(***************************************************************************)
(* Claims about the UploadSession document                                 *)
(***************************************************************************)
SessionConsistent(session) ==
    /\ session.finalized => session.tus_completed
    /\ (session.video_id # NoVideo) <=> session.finalized

\* C39: every stored UploadSession has finalized => tus_completed and a
\* video_id exactly when it is finalized; while the session is stored
\* neither flag goes back to false and a video_id that is set never changes.
C39_SessionFlagsConsistentAndMonotonic ==
    [][\A u \in Uploads :
          /\ sessions'[u].exists => SessionConsistent(sessions'[u])
          /\ (sessions[u].exists /\ sessions'[u].exists) =>
                /\ sessions[u].tus_completed => sessions'[u].tus_completed
                /\ sessions[u].finalized => sessions'[u].finalized
                /\ sessions[u].video_id # NoVideo =>
                       sessions'[u].video_id = sessions[u].video_id]_vars

\* C39 witness: one session finalized and linked to its video, the other
\* uploaded and not yet finalized.
C39_Witness ==
    \E u, w \in Uploads :
        /\ sessions[u].finalized
        /\ sessions[u].video_id # NoVideo
        /\ sessions[w].exists
        /\ sessions[w].tus_completed
        /\ ~sessions[w].finalized
        /\ sessions[w].video_id = NoVideo

C37_CompleteAndFailedExclusive ==
    (Polled /\ poller.loop \in FlagLoops) =>
        ~(poller.update.isComplete /\ poller.update.isFailed)

\* C35: a polling loop (pollUntilPublished, pollVideoStatus,
\* _startEncodingPolling, pollVideoStatusFirst) whose status request
\* succeeded and showed a terminal video status (published, publish_manual,
\* failed, encoding_failed) has stopped: it schedules no further poll.
C35_TerminalStatusStopsLoop ==
    (/\ Polled
     /\ poller.loop \in {"pollUntilPublished", "pollVideoStatus",
                         "_startEncodingPolling", "pollVideoStatusFirst"}
     /\ poller.update.video \in Published \cup Failures) => ~poller.running
\* C32: every cid held in selectedCIDs, and every cid passed to performUnpin,
\* is shown with an age of at least 24 hours (an enabled checkbox) in the
\* table as it is rendered at that moment.
C32_SelectionShownUnpinnable ==
    /\ dashboard.selected \subseteq enabledCids(dashboard.rows)
    /\ dashboard.sent.cids \subseteq dashboard.sent.shown
\* C34: UploadFirstAutoSubmit sends finalize only for an upload_id whose own
\* TUS upload has succeeded, and a success callback of an earlier upload
\* does not mark the current upload complete.
C34_FinalizeOnlyAfterOwnUpload ==
    /\ auto.sends > 0 => auto.sent.tusDone
    /\ (auto.uploadComplete /\ auto.uploadId # NoUploadId) =>
           auto.tus[auto.uploadId] = "done"

\* C33: a finalize request is sent only with uploadComplete and
\* userWantsToSubmit both true; the later of TUS success and Save click sends
\* it when nothing is being submitted; at most one finalize request is in
\* flight at a time; a failed finalize clears isSubmitting, so that a
\* further Save click sends a new request.
C33_AutoSubmitOnceBothHold ==
    [][/\ auto'.sends > auto.sends =>
            auto'.sent.uploadComplete /\ auto'.sent.userWantsToSubmit
       /\ (/\ auto'.event \in {"tusSuccess", "save"}
           /\ auto'.uploadComplete /\ auto'.userWantsToSubmit
           /\ ~auto.isSubmitting) => auto'.sends = auto.sends + 1
       /\ Len(auto'.inFlight) <= 1
       /\ auto'.event = "finalizeFailed" => ~auto'.isSubmitting]_vars
\* C31: while the finalize button of the upload-first form is enabled, the
\* TUS upload of the upload_id held in uploadFirstData has completed.
C31_EnabledButtonHasFinishedUpload ==
    demo.finalizeBtn =>
        /\ demo.uploadFirstData # NoUploadId
        /\ demo.tus[demo.uploadFirstData] = "done"

\* C36: one submit sends at most 3 finalize requests; every request after
\* the first follows the answer 'TUS upload not completed yet', so none
\* follows a success or another error; and when the third answer is still
\* not ready the submit reports failure with the form enabled again and
\* currentVideoId as it was before the submit (or cleared by a reset).
C36_FinalizeRetriesOnlyWhileNotReady ==
    LET sub == demo.submit IN
    /\ sub.requests <= maxRetries
    /\ \A i \in 1..Len(sub.answers) :
          i < sub.requests => sub.answers[i] = NotReady
    /\ (Len(sub.answers) = maxRetries /\ sub.answers[maxRetries] = NotReady) =>
          /\ sub.pc = "idle"
          /\ sub.reported.failed
          /\ sub.reported.formEnabled
          /\ sub.reported.videoId \in {sub.before, NoUploadId}

\* A submit whose three requests were all answered not ready.
C36_Witness ==
    /\ demo.submit.requests = maxRetries
    /\ Len(demo.submit.answers) = maxRetries
    /\ demo.submit.answers[maxRetries] = NotReady
    /\ demo.submit.reported.failed

====
